---------------------------- MODULE Spec2Model ----------------------------
(***************************************************************************)
(* Model of the placeholder engine of the legal-document assistant:       *)
(* src/src/services/documentParser.ts (extraction, filling, validation).   *)
(*                                                                         *)
(* A JavaScript string is a sequence of one-character strings.  An         *)
(* optional field (value?: string) is a sequence of length 0 (absent) or 1 *)
(* (present, holding the string).                                          *)
(***************************************************************************)
EXTENDS Integers, Sequences, FiniteSets, TLC

VARIABLES
    content,            \* the text handed to extractPlaceholders
    placeholders,       \* result of the first extractPlaceholders(content)
    placeholdersAgain,  \* result of a second extractPlaceholders(content)
    foundPlaceholders,  \* the Set<string> of the most recent extraction call
    nextId,             \* source of generateId(): Date.now()/Math.random()
    otherCalls,         \* extraction calls made on other texts in between
    pc,                 \* position in the workflow being exercised
    fillContent,        \* content argument of fillPlaceholders
    fillSet,            \* Placeholder[] argument of fillPlaceholders
    filledContent,      \* fillPlaceholders(fillContent, fillSet)
    refilledContent,    \* fillPlaceholders(filledContent, fillSet)
    valSet,             \* Placeholder[] argument of validatePlaceholders
    validation,         \* result of validatePlaceholders(valSet)
    downloadValidation, \* result of validateForDownload(valSet)
    renderText,         \* the text handed to parseTextToParagraphs
    paragraphs,         \* result of parseTextToParagraphs(renderText)
    previewContent,     \* DocumentPreview: the originalContent prop
    previewSet,         \* DocumentPreview: the placeholders prop
    previewFilled,      \* DocumentPreview: the filledContent state
    displayContent,     \* DocumentPreview: the content put on screen
    apiCalls,           \* ApiService: the request() calls, by call id
    abortController,    \* ApiService: this.abortController
    aborted,            \* the controllers of fetches in flight that were aborted
    timers,             \* the timeout timers set and neither cleared nor fired
    pendingAtCancel,    \* the calls pending when cancelRequests() ran
    lifecycle,          \* AppNew: not yet mounted, mounted or unmounted
    shell,              \* AppNew: the component's React state
    pollTimer,          \* AppNew: the setInterval of the polling effect
    requests,           \* the API requests of the app that are in flight
    apiInfo,            \* what the last finished getApiInfo() reported
    drops,              \* DocumentUpload: number of onDrop calls so far
    dropped,            \* DocumentUpload: the file of the last onDrop
    validationErrors,   \* DocumentUpload: the validationErrors state
    serverFilled,       \* the server: how many fields of each document are filled
    chat                \* ApiConversationalInterface: its state while rendered

vars == <<content, placeholders, placeholdersAgain, foundPlaceholders, nextId,
          otherCalls, pc, fillContent, fillSet, filledContent, refilledContent, valSet,
          validation, downloadValidation, renderText, paragraphs, previewContent, previewSet,
          previewFilled, displayContent, apiCalls, abortController, aborted,
          timers, pendingAtCancel, lifecycle, shell, pollTimer, requests,
          apiInfo, drops, dropped, validationErrors, serverFilled, chat>>

extractVars == <<content, placeholders, placeholdersAgain, foundPlaceholders,
                 nextId, otherCalls>>
fillVars == <<fillContent, fillSet, filledContent, refilledContent>>
valVars == <<valSet, validation, downloadValidation>>
renderVars == <<renderText, paragraphs>>
previewVars == <<previewContent, previewSet, previewFilled, displayContent>>
apiVars == <<apiCalls, abortController, aborted, timers, pendingAtCancel>>
appVars == <<lifecycle, shell, pollTimer, requests, apiInfo, drops, dropped,
             validationErrors, serverFilled, chat>>

\* what each workflow leaves alone
notExtractVars == <<fillVars, valVars, renderVars, previewVars, apiVars, appVars>>
notFillVars == <<extractVars, valVars, renderVars, previewVars, apiVars, appVars>>
notValVars == <<extractVars, fillVars, renderVars, previewVars, apiVars, appVars>>
notRenderVars == <<extractVars, fillVars, valVars, previewVars, apiVars, appVars>>
notPreviewVars == <<extractVars, fillVars, valVars, renderVars, apiVars, appVars>>
notApiVars == <<pc, extractVars, fillVars, valVars, renderVars, previewVars,
                appVars>>
notAppVars == <<pc, extractVars, fillVars, valVars, renderVars, previewVars,
                apiVars>>

(***************************************************************************)
(* Bounds of the model.                                                    *)
(***************************************************************************)
\* number of pieces concatenated into a scanned text
MaxPieces == 3
\* length of an email value handed to validation
MaxEmailLen == 5
\* number of pieces concatenated into a rendered line
MaxLinePieces == 3
\* number of pieces concatenated into a previewed document
MaxPreviewPieces == 2
\* number of request() calls made on the ApiService
MaxCalls == 2
\* number of files dropped on the upload area
MaxDrops == 1
\* number of status polls in flight at once
MaxPolls == 1
\* number of fields (placeholders) of an uploaded document
DocFields == 2
\* number of words joined into a placeholder name
MaxWords == 2
\* number of pieces concatenated into a text handed to fillPlaceholders
MaxFillPieces == 2
\* number of Placeholders in a set handed to fillPlaceholders
MaxFillSet == 2
\* number of Placeholders in a set handed to validatePlaceholders
MaxValSet == 2

(***************************************************************************)
(* Characters and strings.                                                 *)
(***************************************************************************)
lowerAlpha ==
    <<"a","b","c","d","e","f","g","h","i","j","k","l","m",
      "n","o","p","q","r","s","t","u","v","w","x","y","z">>
upperAlpha ==
    <<"A","B","C","D","E","F","G","H","I","J","K","L","M",
      "N","O","P","Q","R","S","T","U","V","W","X","Y","Z">>

UpperSet == {upperAlpha[i] : i \in 1..26}
LowerSet == {lowerAlpha[i] : i \in 1..26}
ToLowerMap == [c \in UpperSet |-> lowerAlpha[CHOOSE i \in 1..26 : upperAlpha[i] = c]]
ToUpperMap == [c \in LowerSet |-> upperAlpha[CHOOSE i \in 1..26 : lowerAlpha[i] = c]]
AlphaIndex == [c \in LowerSet |-> CHOOSE i \in 1..26 : lowerAlpha[i] = c]

IsUpper(c) == c \in UpperSet
IsLower(c) == c \in LowerSet
IsDigit(c) == c \in {"0","1","2","3","4","5","6","7","8","9"}
\* \s of a JavaScript regular expression, and what String.trim removes
IsSpace(c) == c \in {" ", "\t", "\n"}

\* String.prototype.toLowerCase / toUpperCase, character by character
LowerChar(c) == IF IsUpper(c) THEN ToLowerMap[c] ELSE c
UpperChar(c) == IF IsLower(c) THEN ToUpperMap[c] ELSE c
toLowerCase(s) == [i \in 1..Len(s) |-> LowerChar(s[i])]
toUpperCase(s) == [i \in 1..Len(s) |-> UpperChar(s[i])]

\* the characters of s at positions a..b (1-based, inclusive, clipped to s)
Slice(s, a, b) ==
    LET lo == IF a < 1 THEN 1 ELSE a
        hi == IF b > Len(s) THEN Len(s) ELSE b
    IN  IF lo > hi THEN <<>> ELSE SubSeq(s, lo, hi)

RECURSIVE TrimStart(_, _)
\* first position at or after i that holds no white space
TrimStart(s, i) ==
    IF i <= Len(s) /\ IsSpace(s[i]) THEN TrimStart(s, i + 1) ELSE i

RECURSIVE TrimEnd(_, _)
\* last position at or before i that holds no white space
TrimEnd(s, i) ==
    IF i >= 1 /\ IsSpace(s[i]) THEN TrimEnd(s, i - 1) ELSE i

\* String.prototype.trim
trim(s) == Slice(s, TrimStart(s, 1), TrimEnd(s, Len(s)))

\* t occurs in s at (1-based) position i
OccursAt(s, t, i) ==
    /\ i >= 1
    /\ i + Len(t) - 1 <= Len(s)
    /\ \A k \in 1..Len(t) : s[i + k - 1] = t[k]

\* String.prototype.includes
includes(s, t) == \E i \in 1..(Len(s) + 1) : OccursAt(s, t, i)

RECURSIVE Flatten(_)
\* concatenation of a sequence of strings
Flatten(ss) == IF ss = <<>> THEN <<>> ELSE Head(ss) \o Flatten(Tail(ss))

RECURSIVE join(_, _)
\* Array.prototype.join
join(ss, sep) ==
    IF ss = <<>> THEN <<>>
    ELSE IF Len(ss) = 1 THEN ss[1]
    ELSE ss[1] \o sep \o join(Tail(ss), sep)

RECURSIVE split(_, _)
\* String.prototype.split on a one-character separator
split(s, c) ==
    LET hits == {i \in 1..Len(s) : s[i] = c}
    IN  IF hits = {} THEN <<s>>
        ELSE LET i == CHOOSE h \in hits : \A g \in hits : h <= g
             IN  <<Slice(s, 1, i - 1)>> \o split(Slice(s, i + 1, Len(s)), c)


\* an optional string: absent, or present with contents v
Absent == <<>>
Some(v) == <<v>>

(***************************************************************************)
(* String.prototype.localeCompare under the host's root collation:         *)
(* white space, then punctuation, then symbols, then digits, then letters; *)
(* letter case only breaks ties (lower case first).                        *)
(***************************************************************************)
CollationOrder ==
    <<"\t", "\n", " ", "_", "-", ",", ";", ":", "!", "?", ".", "'", "(", ")",
      "[", "]", "{", "}", "@", "*", "/", "&", "#", "%", "^", "+", "<", "=",
      ">", "|", "~", "$",
      "0", "1", "2", "3", "4", "5", "6", "7", "8", "9">>

CollationSet == {CollationOrder[i] : i \in 1..Len(CollationOrder)}
CollationIndex ==
    [c \in CollationSet |-> CHOOSE i \in 1..Len(CollationOrder) : CollationOrder[i] = c]

PrimaryRank(c) ==
    IF IsLower(c) \/ IsUpper(c) THEN Len(CollationOrder) + AlphaIndex[LowerChar(c)]
    ELSE IF c \in CollationSet THEN CollationIndex[c]
    ELSE 0

\* lexicographic comparison of two sequences of ranks
CompareBy(a, b) ==
    LET n == IF Len(a) < Len(b) THEN Len(a) ELSE Len(b)
        diff == {i \in 1..n : a[i] # b[i]}
    IN  IF diff # {}
        THEN LET i == CHOOSE d \in diff : \A e \in diff : d <= e
             IN  IF a[i] < b[i] THEN -1 ELSE 1
        ELSE IF Len(a) < Len(b) THEN -1
        ELSE IF Len(a) > Len(b) THEN 1
        ELSE 0

CaseRank(c) == IF IsUpper(c) THEN 1 ELSE 0

localeCompare(a, b) ==
    LET primary == CompareBy([i \in 1..Len(a) |-> PrimaryRank(a[i])],
                             [i \in 1..Len(b) |-> PrimaryRank(b[i])])
    IN  IF primary # 0 THEN primary
        ELSE CompareBy([i \in 1..Len(a) |-> CaseRank(a[i])],
                       [i \in 1..Len(b) |-> CaseRank(b[i])])

(***************************************************************************)
(* createPlaceholder and its helpers.                                      *)
(***************************************************************************)
\* formatLabel with the rest of each word left as written
formatLabelKeepCase(text) ==
    join([i \in 1..Len(split(text, " ")) |->
              LET word == split(text, " ")[i]
              IN  toUpperCase(Slice(word, 1, 1)) \o Slice(word, 2, Len(word))],
         <<" ">>)

\* text.split(" ").map(word => word.charAt(0).toUpperCase()
\*                             + word.slice(1).toLowerCase()).join(" ")
formatLabel(text) ==
    join([i \in 1..Len(split(text, " ")) |->
              LET word == split(text, " ")[i]
              IN  toUpperCase(Slice(word, 1, 1))
                      \o toLowerCase(Slice(word, 2, Len(word)))],
         <<" ">>)

\* text.replace(/[_-]/g, " ").trim()
cleanText(text) ==
    trim([i \in 1..Len(text) |-> IF text[i] \in {"_", "-"} THEN " " ELSE text[i]])

kwDate == <<"d","a","t","e">>
kwTime == <<"t","i","m","e">>
kwEmail == <<"e","m","a","i","l">>
kwEMail == <<"e","-","m","a","i","l">>
kwNumber == <<"n","u","m","b","e","r">>
kwAmount == <<"a","m","o","u","n","t">>
kwPrice == <<"p","r","i","c","e">>
kwCost == <<"c","o","s","t">>
kwOptional == <<"o","p","t","i","o","n","a","l">>
kwIfApplicable == <<"i","f"," ","a","p","p","l","i","c","a","b","l","e">>

\* the type chain with the email test placed before the date test
InferTypeEmailFirst(lowerText) ==
    IF includes(lowerText, kwEmail) \/ includes(lowerText, kwEMail) THEN "email"
    ELSE IF includes(lowerText, kwDate) \/ includes(lowerText, kwTime) THEN "date"
    ELSE IF \/ includes(lowerText, kwNumber)
            \/ includes(lowerText, kwAmount)
            \/ includes(lowerText, kwPrice)
            \/ includes(lowerText, kwCost) THEN "number"
    ELSE "text"

\* the if / else-if chain that infers the type from the placeholder name
InferType(lowerText) ==
    IF includes(lowerText, kwDate) \/ includes(lowerText, kwTime) THEN "date"
    ELSE IF includes(lowerText, kwEmail) \/ includes(lowerText, kwEMail) THEN "email"
    ELSE IF \/ includes(lowerText, kwNumber)
            \/ includes(lowerText, kwAmount)
            \/ includes(lowerText, kwPrice)
            \/ includes(lowerText, kwCost) THEN "number"
    ELSE "text"

DescriptionOf(type) ==
    CASE type = "date" -> "Enter a date"
      [] type = "email" -> "Enter an email address"
      [] type = "number" -> "Enter a number"
      [] OTHER -> "Enter text"

\* required inferred from the "optional" hint alone
InferRequiredOptionalOnly(lowerText) == ~includes(lowerText, kwOptional)

\* !lowerText.includes("optional") && !lowerText.includes("if applicable")
InferRequired(lowerText) ==
    ~includes(lowerText, kwOptional) /\ ~includes(lowerText, kwIfApplicable)

createPlaceholder(text, originalText, id) ==
    LET clean == cleanText(text)
        lowerText == toLowerCase(clean)
        type == InferType(lowerText)
    IN  [id |-> id,
         label |-> formatLabel(clean),
         originalText |-> originalText,
         type |-> type,
         required |-> InferRequired(lowerText),
         description |-> DescriptionOf(type),
         value |-> Absent]

(***************************************************************************)
(* extractPlaceholders: the four patterns, each an opening delimiter, a    *)
(* non-empty greedy run of a character class (the capture group) and a     *)
(* closing delimiter whose first character is outside the class.           *)
(***************************************************************************)
placeholderPatterns ==
    << [open |-> <<"{", "{">>, close |-> <<"}", "}">>, class |-> "notRightBrace"],
       [open |-> <<"[">>,      close |-> <<"]">>,      class |-> "upperUnderscoreSpace"],
       [open |-> <<"<", "<">>, close |-> <<">", ">">>, class |-> "notGreater"],
       [open |-> <<"{">>,      close |-> <<"}">>,      class |-> "notRightBrace"] >>

InClass(class, c) ==
    CASE class = "notRightBrace" -> c # "}"
      [] class = "upperUnderscoreSpace" -> IsUpper(c) \/ c = "_" \/ IsSpace(c)
      [] class = "notGreater" -> c # ">"

RECURSIVE RunEnd(_, _, _)
\* first position at or after a that is past the run of class characters
RunEnd(p, s, a) ==
    IF a > Len(s) \/ ~InClass(p.class, s[a]) THEN a ELSE RunEnd(p, s, a + 1)

\* last position of the match of p that starts at i, or 0 if there is none
MatchEnd(p, s, i) ==
    IF ~OccursAt(s, p.open, i) THEN 0
    ELSE LET a == i + Len(p.open)
             j == RunEnd(p, s, a)
         IN  IF j > a /\ OccursAt(s, p.close, j) THEN j + Len(p.close) - 1 ELSE 0

RECURSIVE exec(_, _, _)
\* pattern.exec(content) from lastIndex = from - 1: the leftmost match, as
\* [index, last], or [index |-> 0] for null
exec(p, s, from) ==
    IF from > Len(s) THEN [index |-> 0, last |-> 0]
    ELSE LET e == MatchEnd(p, s, from)
         IN  IF e # 0 THEN [index |-> from, last |-> e] ELSE exec(p, s, from + 1)

\* match[0] and match[1]
Match0(s, m) == Slice(s, m.index, m.last)
Match1(p, s, m) == Slice(s, m.index + Len(p.open), m.last - Len(p.close))

\* the key with the letter case kept
DedupKeyExact(placeholderText) == placeholderText

\* placeholderText.toLowerCase(), the member of foundPlaceholders
DedupKey(placeholderText) == toLowerCase(placeholderText)

\* a check that never skips
AlreadyFoundNever(found, key) == FALSE

\* foundPlaceholders.has(key)
AlreadyFound(found, key) == key \in found

\* a Set kept across calls
InitialFoundKept(previous) == previous

\* const foundPlaceholders = new Set<string>()
InitialFound(previous) == {}

RECURSIVE ScanPattern(_, _, _, _)
\* the while loop of one pattern; st = [found, list, id]
ScanPattern(p, s, from, st) ==
    LET m == exec(p, s, from)
    IN  IF m.index = 0 THEN st
        ELSE LET originalText == Match0(s, m)
                 placeholderText == trim(Match1(p, s, m))
                 key == DedupKey(placeholderText)
             IN  ScanPattern(p, s, m.last + 1,
                     IF AlreadyFound(st.found, key) THEN st
                     ELSE [found |-> st.found \cup {key},
                           list |-> Append(st.list,
                                      createPlaceholder(placeholderText,
                                                        originalText, st.id)),
                           id |-> st.id + 1])

RECURSIVE ScanPatterns(_, _, _)
\* placeholderPatterns.forEach, from pattern g on
ScanPatterns(g, s, st) ==
    IF g > Len(placeholderPatterns) THEN st
    ELSE ScanPatterns(g + 1, s, ScanPattern(placeholderPatterns[g], s, 1, st))

RECURSIVE InsertSorted(_, _)
\* p placed after every element that does not compare greater (stable)
InsertSorted(list, p) ==
    IF list = <<>> THEN <<p>>
    ELSE IF localeCompare(Head(list).label, p.label) > 0 THEN <<p>> \o list
    ELSE <<Head(list)>> \o InsertSorted(Tail(list), p)

RECURSIVE SortByLabel(_)
\* placeholders.sort((a, b) => a.label.localeCompare(b.label))
SortByLabel(list) ==
    IF list = <<>> THEN <<>>
    ELSE InsertSorted(SortByLabel(SubSeq(list, 1, Len(list) - 1)), list[Len(list)])

\* the scan of one call: [found, list, id]
ExtractScan(s, previousFound, id) ==
    ScanPatterns(1, s, [found |-> InitialFound(previousFound), list |-> <<>>, id |-> id])

extractPlaceholders(s, previousFound, id) ==
    SortByLabel(ExtractScan(s, previousFound, id).list)


(***************************************************************************)
(* fillPlaceholders.  A regular expression is a sequence of atoms, each    *)
(* matching one character: a literal (escaped or plain), a character class *)
(* [...] or the wildcard.  The source handed to new RegExp is the escaped  *)
(* originalText, so every atom of it is a literal; the other atoms are     *)
(* what an unescaped source would be compiled to.                          *)
(***************************************************************************)
RegExpSpecials ==
    {".", "*", "+", "?", "^", "$", "{", "}", "(", ")", "|", "[", "]", "\\"}

\* the source text used as the pattern as it is
EscapeNothing(text) == text

\* originalText.replace(/[.*+?^${}()|[\]\\]/g, "\\$&")
EscapeRegExp(text) ==
    Flatten([i \in 1..Len(text) |->
                IF text[i] \in RegExpSpecials THEN <<"\\", text[i]>> ELSE <<text[i]>>])

RECURSIVE IndexOfChar(_, _, _)
\* first position at or after from where s holds c, or 0
IndexOfChar(s, c, from) ==
    IF from > Len(s) THEN 0
    ELSE IF s[from] = c THEN from
    ELSE IndexOfChar(s, c, from + 1)

RECURSIVE ParsePattern(_)
\* new RegExp(source): the atoms of the source
ParsePattern(src) ==
    IF src = <<>> THEN <<>>
    ELSE IF src[1] = "\\" /\ Len(src) >= 2
    THEN <<[any |-> FALSE, chars |-> {src[2]}]>> \o ParsePattern(Slice(src, 3, Len(src)))
    ELSE IF src[1] = "[" /\ IndexOfChar(src, "]", 2) # 0
    THEN LET j == IndexOfChar(src, "]", 2)
         IN  <<[any |-> FALSE, chars |-> {src[k] : k \in 2..(j - 1)}]>>
                 \o ParsePattern(Slice(src, j + 1, Len(src)))
    ELSE IF src[1] = "."
    THEN <<[any |-> TRUE, chars |-> {}]>> \o ParsePattern(Tail(src))
    ELSE <<[any |-> FALSE, chars |-> {src[1]}]>> \o ParsePattern(Tail(src))

\* the atoms match s at position i
AtomsMatchAt(atoms, s, i) ==
    /\ i + Len(atoms) - 1 <= Len(s)
    /\ \A k \in 1..Len(atoms) : atoms[k].any \/ s[i + k - 1] \in atoms[k].chars

\* position of the leftmost match at or after from, or 0
RegExpSearch(atoms, s, from) ==
    LET hits == {i \in from..(Len(s) - Len(atoms) + 1) : AtomsMatchAt(atoms, s, i)}
    IN  IF hits = {} THEN 0 ELSE CHOOSE i \in hits : \A j \in hits : i <= j

RECURSIVE GetSubstitution(_, _, _, _)
\* the replacement text of String.prototype.replace for a pattern without
\* capture groups: $$ is a dollar sign, $& the matched text, $` the text
\* before the match, $' the text after it; any other character stands for
\* itself
GetSubstitution(replacement, matched, before, after) ==
    IF replacement = <<>> THEN <<>>
    ELSE IF replacement[1] = "$" /\ Len(replacement) >= 2
                /\ replacement[2] \in {"$", "&", "`", "'"}
    THEN (CASE replacement[2] = "$" -> <<"$">>
            [] replacement[2] = "&" -> matched
            [] replacement[2] = "`" -> before
            [] replacement[2] = "'" -> after)
         \o GetSubstitution(Slice(replacement, 3, Len(replacement)),
                            matched, before, after)
    ELSE <<replacement[1]>>
         \o GetSubstitution(Tail(replacement), matched, before, after)

\* a pattern built without the "g" flag
GlobalFlagOff == FALSE

\* new RegExp(escapedOriginal, "g")
GlobalFlag == TRUE

RECURSIVE ReplaceFrom(_, _, _, _, _)
\* s.replace(regex, replacement), the part of the result from position from
\* on; the patterns of the model are never empty
ReplaceFrom(s, atoms, replacement, from, global) ==
    LET i == RegExpSearch(atoms, s, from)
        n == Len(atoms)
    IN  IF i = 0 THEN Slice(s, from, Len(s))
        ELSE Slice(s, from, i - 1)
             \o GetSubstitution(replacement, Slice(s, i, i + n - 1),
                                Slice(s, 1, i - 1), Slice(s, i + n, Len(s)))
             \o (IF global THEN ReplaceFrom(s, atoms, replacement, i + n, global)
                 ELSE Slice(s, i + n, Len(s)))

\* a value is substituted as soon as it is defined
ShouldFillDefined(p) == p.value # Absent

\* if (placeholder.value): defined and not the empty string
ShouldFill(p) == p.value # Absent /\ p.value[1] # <<>>

\* the body of the forEach callback for one Placeholder
FillOne(text, p) ==
    IF ShouldFill(p)
    THEN ReplaceFrom(text, ParsePattern(EscapeRegExp(p.originalText)),
                     p.value[1], 1, GlobalFlag)
    ELSE text

RECURSIVE fillPlaceholders(_, _)
fillPlaceholders(text, ps) ==
    IF ps = <<>> THEN text
    ELSE fillPlaceholders(FillOne(text, Head(ps)), Tail(ps))

(***************************************************************************)
(* validatePlaceholders and the checks it calls.                           *)
(***************************************************************************)
\* /^[^\s@]+@[^\s@]+\.[^\s@]+$/.test(email): no white space, a single @
\* with text before it, and after it a dot with text on both sides
\* a pattern that lets the domain hold further @ signs
isValidEmailAnyAt(email) ==
    /\ \A i \in 1..Len(email) : ~IsSpace(email[i])
    /\ \E a \in 2..Len(email) :
         /\ email[a] = "@"
         /\ \A i \in 1..(a - 1) : email[i] # "@"
         /\ \E d \in (a + 2)..(Len(email) - 1) : email[d] = "."

isValidEmail(email) ==
    LET ats == {i \in 1..Len(email) : email[i] = "@"}
    IN  /\ \A i \in 1..Len(email) : ~IsSpace(email[i])
        /\ Cardinality(ats) = 1
        /\ \E a \in ats :
             /\ a > 1
             /\ \E d \in (a + 2)..(Len(email) - 1) : email[d] = "."

AllDigits(s) == \A i \in 1..Len(s) : IsDigit(s[i])

\* digits, optionally with one dot, at least one digit in all
IsMantissa(s) ==
    LET dots == {i \in 1..Len(s) : s[i] = "."}
    IN  /\ Cardinality(dots) <= 1
        /\ \A i \in 1..Len(s) : IsDigit(s[i]) \/ s[i] = "."
        /\ \E i \in 1..Len(s) : IsDigit(s[i])

\* an optional sign and at least one digit
IsExponent(s) ==
    LET body == IF s # <<>> /\ s[1] \in {"+", "-"} THEN Tail(s) ELSE s
    IN  body # <<>> /\ AllDigits(body)

kwInfinity == <<"I","n","f","i","n","i","t","y">>

\* an unsigned decimal literal of the StringNumericLiteral grammar
IsUnsignedDecimal(s) ==
    \/ s = kwInfinity
    \/ LET es == {i \in 1..Len(s) : s[i] \in {"e", "E"}}
       IN  IF es = {} THEN IsMantissa(s)
           ELSE \E e \in es :
                  /\ \A f \in es : e <= f
                  /\ IsMantissa(Slice(s, 1, e - 1))
                  /\ IsExponent(Slice(s, e + 1, Len(s)))

\* 0x, 0o or 0b followed by digits of the radix
IsRadixLiteral(s) ==
    /\ Len(s) >= 3
    /\ s[1] = "0"
    /\ \/ /\ s[2] \in {"x", "X"}
          /\ \A i \in 3..Len(s) :
               IsDigit(s[i]) \/ LowerChar(s[i]) \in {"a", "b", "c", "d", "e", "f"}
       \/ /\ s[2] \in {"o", "O"}
          /\ \A i \in 3..Len(s) : s[i] \in {"0","1","2","3","4","5","6","7"}
       \/ /\ s[2] \in {"b", "B"}
          /\ \A i \in 3..Len(s) : s[i] \in {"0", "1"}

\* isNaN(Number(value)): the trimmed text is neither empty nor a numeric
\* literal
NumberIsNaN(value) ==
    LET t == trim(value)
        body == IF t # <<>> /\ t[1] \in {"+", "-"} THEN Tail(t) ELSE t
    IN  ~(\/ t = <<>>
          \/ IsUnsignedDecimal(body)
          \/ IsRadixLiteral(t))

DigitValue(c) ==
    CHOOSE n \in 0..9 : <<"0","1","2","3","4","5","6","7","8","9">>[n + 1] = c

RECURSIVE ToNat(_)
\* the decimal value of a string of digits
ToNat(s) ==
    IF s = <<>> THEN 0
    ELSE 10 * ToNat(SubSeq(s, 1, Len(s) - 1)) + DigitValue(s[Len(s)])

\* the date-only form YYYY-MM-DD of the date-time string format
IsDateOnlyForm(s) ==
    /\ Len(s) = 10
    /\ s[5] = "-" /\ s[8] = "-"
    /\ \A i \in {1, 2, 3, 4, 6, 7, 9, 10} : IsDigit(s[i])

\* !isNaN(new Date(dateString).getTime()).  A string in the date-only form
\* is valid exactly when its month and day are in range; for any other
\* string the parse is implementation-defined, and hostParses is what the
\* host's parser makes of it
isValidDate(dateString, hostParses) ==
    IF IsDateOnlyForm(dateString)
    THEN /\ ToNat(SubSeq(dateString, 6, 7)) \in 1..12
         /\ ToNat(SubSeq(dateString, 9, 10)) \in 1..31
    ELSE hostParses

msgRequired == <<" ","i","s"," ","r","e","q","u","i","r","e","d">>
msgEmail == <<" ","m","u","s","t"," ","b","e"," ","a"," ","v","a","l","i","d"," ","e","m","a","i","l"," ","a","d","d","r","e","s","s">>
msgNumber == <<" ","m","u","s","t"," ","b","e"," ","a"," ","v","a","l","i","d"," ","n","u","m","b","e","r">>
msgDate == <<" ","m","u","s","t"," ","b","e"," ","a"," ","v","a","l","i","d"," ","d","a","t","e">>

\* !placeholder.value?.trim()
ValueBlank(p) == p.value = Absent \/ trim(p.value[1]) = <<>>

\* the type errors of one Placeholder: the switch on placeholder.type
TypeErrors(p, hostParses) ==
    IF p.value # Absent /\ p.value[1] # <<>>
    THEN CASE p.type = "email" ->
                IF ~isValidEmail(p.value[1]) THEN <<p.label \o msgEmail>> ELSE <<>>
           [] p.type = "number" ->
                IF NumberIsNaN(p.value[1]) THEN <<p.label \o msgNumber>> ELSE <<>>
           [] p.type = "date" ->
                IF ~isValidDate(p.value[1], hostParses) THEN <<p.label \o msgDate>>
                ELSE <<>>
           [] OTHER -> <<>>
    ELSE <<>>

\* the callback without the return after the required error
ErrorsOfNoReturn(p, hostParses) ==
    (IF p.required /\ ValueBlank(p) THEN <<p.label \o msgRequired>> ELSE <<>>)
        \o TypeErrors(p, hostParses)

\* the forEach callback: what one Placeholder adds to errors
ErrorsOf(p, hostParses) ==
    IF p.required /\ ValueBlank(p) THEN <<p.label \o msgRequired>>
    ELSE TypeErrors(p, hostParses)

RECURSIVE CollectErrors(_, _)
CollectErrors(ps, hostParses) ==
    IF ps = <<>> THEN <<>>
    ELSE ErrorsOf(Head(ps), hostParses) \o CollectErrors(Tail(ps), hostParses)

\* a validation that stops at the first error
validateFirstErrorOnly(ps, hostParses) ==
    LET errors == CollectErrors(ps, hostParses)
    IN  [isValid |-> Len(errors) = 0,
         errors |-> IF errors = <<>> THEN <<>> ELSE <<errors[1]>>]

validatePlaceholders(ps, hostParses) ==
    LET errors == CollectErrors(ps, hostParses)
    IN  [isValid |-> Len(errors) = 0, errors |-> errors]

(***************************************************************************)
(* documentDownload.validateForDownload.                                   *)
(***************************************************************************)
msgStillEmpty == <<" ","r","e","q","u","i","r","e","d"," ","f","i","e","l","d","(","s",")"," ","a","r","e"," ","s","t","i","l","l"," ","e","m","p","t","y",":"," ">>
msgInvalidEmail == <<" ","c","o","n","t","a","i","n","s"," ","a","n"," ","i","n","v","a","l","i","d"," ","e","m","a","i","l"," ","a","d","d","r","e","s","s">>
msgInvalidNumber == <<" ","c","o","n","t","a","i","n","s"," ","a","n"," ","i","n","v","a","l","i","d"," ","n","u","m","b","e","r">>
msgInvalidDate == <<" ","c","o","n","t","a","i","n","s"," ","a","n"," ","i","n","v","a","l","i","d"," ","d","a","t","e">>

RECURSIVE NatToString(_)
\* the decimal digits of a natural number
NatToString(n) ==
    IF n < 10 THEN <<(<<"0","1","2","3","4","5","6","7","8","9">>)[n + 1]>>
    ELSE NatToString(n \div 10) \o NatToString(n % 10)

\* !p.value || p.value.trim() === ""
NoValue(p) == p.value = Absent \/ p.value[1] = <<>> \/ trim(p.value[1]) = <<>>

\* the two filter callbacks together
IsUnfilledRequired(p) == p.required /\ NoValue(p)

\* placeholders.filter(p => p.required) filtered on the unfilled ones
unfilledRequired(ps) == SelectSeq(ps, IsUnfilledRequired)

\* the forEach callback of validateForDownload: the switch on the type of a
\* Placeholder whose trimmed value is not empty
DownloadTypeErrors(p, hostParses) ==
    IF ~NoValue(p)
    THEN CASE p.type = "email" ->
                IF ~isValidEmail(p.value[1]) THEN <<p.label \o msgInvalidEmail>>
                ELSE <<>>
           [] p.type = "number" ->
                IF NumberIsNaN(p.value[1]) THEN <<p.label \o msgInvalidNumber>>
                ELSE <<>>
           [] p.type = "date" ->
                IF ~isValidDate(p.value[1], hostParses)
                THEN <<p.label \o msgInvalidDate>> ELSE <<>>
           [] OTHER -> <<>>
    ELSE <<>>

RECURSIVE CollectDownloadErrors(_, _)
CollectDownloadErrors(ps, hostParses) ==
    IF ps = <<>> THEN <<>>
    ELSE DownloadTypeErrors(Head(ps), hostParses)
             \o CollectDownloadErrors(Tail(ps), hostParses)

\* validateForDownload(placeholders)
validateForDownload(ps, hostParses) ==
    LET missing == unfilledRequired(ps)
        errors ==
            (IF Len(missing) > 0
             THEN <<NatToString(Len(missing)) \o msgStillEmpty
                      \o join([i \in 1..Len(missing) |-> missing[i].label],
                              <<",", " ">>)>>
             ELSE <<>>)
            \o CollectDownloadErrors(ps, hostParses)
    IN  [isValid |-> Len(errors) = 0, errors |-> errors]

(***************************************************************************)
(* Inputs: the texts handed to extractPlaceholders.                        *)
(***************************************************************************)
Pieces ==
    { <<"{","{","x","}","}">>, <<"{","{","X","}","}">>, <<"[","X","]">>, <<"<","<","x",">",">">>,
      <<"{","x","}">>, <<"{","y"," ","}">>,
      <<"{">> }

Words ==
    { kwDate, kwTime, kwEmail, kwEMail, kwNumber, kwAmount, kwPrice, kwCost,
      kwOptional, kwIfApplicable }

\* the word separator written in each delimiter style
StyleSeparators == << <<"_">>, <<" ">>, <<"-">>, <<" ">> >>

\* a name written in delimiter style g (upper case inside square brackets)
Delimited(name, g) ==
    LET p == placeholderPatterns[g]
    IN  p.open \o (IF g = 2 THEN toUpperCase(name) ELSE name) \o p.close

nameClientName == <<"c","l","i","e","n","t","_","n","a","m","e">>
docDuplicate == <<"{","{","x","}","}"," ","a","n","d"," ","{","{","x","}","}"," ","a","g","a","i","n">>
docHello == <<"H","e","l","l","o"," ","{","{","n","a","m","e","}","}",","," ","t","o","t","a","l"," ","{","{","a","m","o","u","n","t","}","}">>
docMiddleName == <<"{","{","m","i","d","d","l","e","_","n","a","m","e","_","o","p","t","i","o","n","a","l","}","}">>
docSuite == <<"{","{","s","u","i","t","e","_","i","f","_","a","p","p","l","i","c","a","b","l","e","}","}">>
docEffectiveDate == <<"{","{","e","f","f","e","c","t","i","v","e","_","d","a","t","e","}","}">>
docMixedCase == <<"{","{","C","l","i","e","n","t","}","}"," ","[","C","L","I","E","N","T","]"," ","<","<","c","l","i","e","n","t",">",">"," ","{","C","L","I","E","N","T","}">>

ExampleTexts ==
    { Delimited(nameClientName, g) : g \in 1..4 }
    \cup { docDuplicate, docHello, docMiddleName, docSuite, docEffectiveDate,
           docMixedCase }

\* texts of unrelated calls made between the two compared calls
OtherTexts == { docMixedCase }


(***************************************************************************)
(* The extraction workflow: a call of extractPlaceholders on a text,       *)
(* possibly a call on another text, and a second call on the same text.    *)
(***************************************************************************)
NoValidation == [isValid |-> TRUE, errors |-> <<>>]

InitEngine ==
    /\ content = <<>>
    /\ placeholders = <<>>
    /\ placeholdersAgain = <<>>
    /\ foundPlaceholders = {}
    /\ nextId = 1
    /\ otherCalls = 0
    /\ fillContent = <<>>
    /\ fillSet = <<>>
    /\ filledContent = <<>>
    /\ refilledContent = <<>>
    /\ valSet = <<>>
    /\ validation = NoValidation
    /\ downloadValidation = NoValidation
    /\ renderText = <<>>
    /\ paragraphs = <<>>
    /\ previewContent = <<>>
    /\ previewSet = <<>>
    /\ previewFilled = <<>>
    /\ displayContent = <<>>
    /\ apiCalls = [c \in 1..MaxCalls |->
                     [phase |-> "idle", retryCount |-> 0, attempts |-> 0,
                      outcomes |-> <<>>, delays |-> <<>>, result |-> "none"]]
    /\ abortController = <<>>
    /\ aborted = {}
    /\ timers = {}
    /\ pendingAtCancel = <<>>

InitCommon ==
    /\ InitEngine
    /\ lifecycle = "initial"
    /\ shell = [currentState |-> "upload", document |-> <<>>,
                placeholders |-> <<>>, isLoading |-> FALSE, error |-> "",
                isApiAvailable |-> FALSE, isGeneratingDownload |-> FALSE,
                progress |-> [total |-> 0, filled |-> 0, percentage |-> 0]]
    /\ pollTimer = <<>>
    /\ requests = {}
    /\ apiInfo = <<>>
    /\ drops = 0
    /\ dropped = <<>>
    /\ validationErrors = <<>>
    /\ serverFilled = [d \in 1..MaxDrops |-> 0]
    /\ chat = <<>>

Init ==
    /\ InitCommon
    /\ pc = "idle"

\* extractPlaceholders(c), first call
ExtractOn(c) ==
    /\ \E scan \in {ExtractScan(c, foundPlaceholders, nextId)} :
         /\ content' = c
         /\ placeholders' = SortByLabel(scan.list)
         /\ foundPlaceholders' = scan.found
         /\ nextId' = scan.id
    /\ pc' = "extracted"
    /\ UNCHANGED <<placeholdersAgain, otherCalls, notExtractVars>>

\* a call on a concatenation of at most MaxPieces pieces
ExtractShortText ==
    /\ pc = "idle"
    /\ \E n \in 0..MaxPieces : \E ps \in [1..n -> Pieces] : ExtractOn(Flatten(ps))

\* a call on one token: at most MaxWords words joined by the separator of one
\* of the four delimiter styles
ExtractTokenText ==
    /\ pc = "idle"
    /\ \E n \in 1..MaxWords :
         \E ws \in [1..n -> Words], g \in 1..4 :
             ExtractOn(Delimited(join(ws, StyleSeparators[g]), g))

\* a call on one of the example documents
ExtractExample ==
    /\ pc = "idle"
    /\ \E c \in ExampleTexts : ExtractOn(c)

Extract == ExtractShortText \/ ExtractTokenText \/ ExtractExample

\* extractPlaceholders on an unrelated text, result dropped
ExtractOther ==
    /\ pc = "extracted"
    /\ otherCalls = 0
    /\ \E d \in OtherTexts :
         \E scan \in {ExtractScan(d, foundPlaceholders, nextId)} :
             /\ foundPlaceholders' = scan.found
             /\ nextId' = scan.id
    /\ otherCalls' = otherCalls + 1
    /\ UNCHANGED <<content, placeholders, placeholdersAgain, pc, notExtractVars>>

\* extractPlaceholders(content), second call on the same text
ExtractAgain ==
    /\ pc = "extracted"
    /\ \E scan \in {ExtractScan(content, foundPlaceholders, nextId)} :
           /\ placeholdersAgain' = SortByLabel(scan.list)
           /\ foundPlaceholders' = scan.found
           /\ nextId' = scan.id
    /\ pc' = "again"
    /\ UNCHANGED <<content, placeholders, otherCalls, notExtractVars>>

Next == Extract \/ ExtractOther \/ ExtractAgain

Spec == Init /\ [][Next]_vars


(***************************************************************************)
(* What the claims speak of: the matches of the four grammars in the fixed *)
(* order, each with its key, and the first match of every key.             *)
(***************************************************************************)
RECURSIVE MatchesFrom(_, _, _)
MatchesFrom(g, s, from) ==
    LET p == placeholderPatterns[g]
        m == exec(p, s, from)
    IN  IF m.index = 0 THEN <<>>
        ELSE <<[grammar |-> g,
                originalText |-> Match0(s, m),
                token |-> trim(Match1(p, s, m)),
                key |-> toLowerCase(trim(Match1(p, s, m)))]>>
             \o MatchesFrom(g, s, m.last + 1)

AllMatches(s) ==
    MatchesFrom(1, s, 1) \o MatchesFrom(2, s, 1)
        \o MatchesFrom(3, s, 1) \o MatchesFrom(4, s, 1)

\* the matches that are the first of their key
FirstMatches(s) ==
    LET ms == AllMatches(s)
    IN  {ms[i] : i \in {j \in 1..Len(ms) : \A k \in 1..(j - 1) : ms[k].key # ms[j].key}}

\* the token with underscores and dashes turned into spaces
Normalized(token) ==
    [i \in 1..Len(token) |-> IF token[i] \in {"_", "-"} THEN " " ELSE token[i]]

Extracted == pc \in {"extracted", "again"}

\* C1: extractPlaceholders returns exactly one Placeholder per
\* case-insensitive key: as many Placeholders as there are keys among the
\* matches, and for every key exactly one Placeholder, whose originalText is
\* that of the first match of the key (grammar order, then scan order).
C1_OnePlaceholderPerKey ==
    Extracted =>
        LET firsts == FirstMatches(content)
        IN  /\ Len(placeholders) = Cardinality({m.key : m \in firsts})
            /\ \A m \in firsts :
                 Cardinality({i \in 1..Len(placeholders) :
                                 placeholders[i].originalText = m.originalText}) = 1

\* a later match of a key already seen, in another grammar and another
\* letter case, was skipped
C1_Witness ==
    /\ Extracted
    /\ LET ms == AllMatches(content)
       IN  \E i, j \in 1..Len(ms) :
             /\ i < j
             /\ ms[i].key = ms[j].key
             /\ ms[i].grammar # ms[j].grammar
             /\ ms[i].token # ms[j].token
             /\ \A q \in 1..Len(placeholders) :
                  placeholders[q].originalText # ms[j].originalText

docX == <<"{","{","x","}","}">>

\* position i of s lies inside an occurrence of t
Covered(s, t, i) ==
    \E j \in 1..i : j + Len(t) > i /\ OccursAt(s, t, j)

\* the only tokens of s are occurrences of the double-brace token t
OnlyToken(s, t) ==
    /\ includes(s, t)
    /\ \A i \in 1..Len(s) :
         s[i] \in {"{", "}", "[", "]", "<", ">"} => Covered(s, t, i)

\* C2: content whose only tokens are occurrences of one double-brace token
\* yields exactly one Placeholder, whose originalText is that token.
C2_OneDoubleBracePlaceholder ==
    (Extracted /\ OnlyToken(content, docX)) =>
        /\ Len(placeholders) = 1
        /\ placeholders[1].originalText = docX

\* C6: two extractions of the same text, whatever calls lie between them,
\* return lists of the same length that agree position by position on
\* label, type, required, description and originalText.
C6_ExtractionDeterministic ==
    pc = "again" =>
        /\ Len(placeholdersAgain) = Len(placeholders)
        /\ \A i \in 1..Len(placeholders) :
             /\ placeholdersAgain[i].label = placeholders[i].label
             /\ placeholdersAgain[i].type = placeholders[i].type
             /\ placeholdersAgain[i].required = placeholders[i].required
             /\ placeholdersAgain[i].description = placeholders[i].description
             /\ placeholdersAgain[i].originalText = placeholders[i].originalText

\* a second call after an unrelated call returned several Placeholders, each
\* under a new id
C6_Witness ==
    /\ pc = "again"
    /\ otherCalls = 1
    /\ Len(placeholders) >= 2
    /\ Len(placeholdersAgain) >= 2
    /\ \A i \in 1..Len(placeholders), j \in 1..Len(placeholdersAgain) :
         placeholders[i].id # placeholdersAgain[j].id

\* the type the rules of the claim give a normalized lower-cased token
RuleType(n) ==
    IF includes(n, kwDate) \/ includes(n, kwTime) THEN "date"
    ELSE IF includes(n, kwEmail) \/ includes(n, kwEMail) THEN "email"
    ELSE IF includes(n, kwNumber) \/ includes(n, kwAmount)
            \/ includes(n, kwPrice) \/ includes(n, kwCost) THEN "number"
    ELSE "text"

\* the Placeholders created from match m
CreatedFrom(m) ==
    {placeholders[i] : i \in {j \in 1..Len(placeholders) :
                                 placeholders[j].originalText = m.originalText}}

\* C7: the type of an extracted Placeholder is that of the first matching
\* rule (date/time, then email/e-mail, then number/amount/price/cost, else
\* text) on the lower-cased token with underscores and dashes as spaces.
C7_TypeFirstRuleWins ==
    Extracted =>
        \A m \in FirstMatches(content) :
            \A p \in CreatedFrom(m) :
                p.type = RuleType(toLowerCase(Normalized(m.token)))

\* a token matching the email rule and the date rule got type date, and one
\* matching the number rule and the time rule got type date
C7_Witness ==
    /\ Extracted
    /\ \E m \in FirstMatches(content) :
         /\ includes(m.key, kwEmail)
         /\ includes(m.key, kwDate)
         /\ \E p \in CreatedFrom(m) : p.type = "date"

\* the label the claim gives a token: underscores and dashes as spaces, each
\* word with its first letter upper case and the rest lower case
RuleLabel(token) ==
    LET n == trim(Normalized(token))
    IN  [i \in 1..Len(n) |->
            IF i = 1 \/ n[i - 1] = " " THEN UpperChar(n[i]) ELSE LowerChar(n[i])]

labelClientName == <<"C","l","i","e","n","t"," ","N","a","m","e">>

\* C8: in each of the four delimiter styles the token client_name
\* (CLIENT_NAME in square brackets) yields a Placeholder with label
\* "Client Name", type text, required, and the whole delimited token as
\* originalText; every label is the token with each word capitalised.
C8_ClientNameAllStyles ==
    Extracted =>
        /\ \A g \in 1..4 :
             content = Delimited(nameClientName, g) =>
                 \E i \in 1..Len(placeholders) :
                     /\ placeholders[i].label = labelClientName
                     /\ placeholders[i].type = "text"
                     /\ placeholders[i].required = TRUE
                     /\ placeholders[i].originalText = content
        /\ \A m \in FirstMatches(content) :
             \A p \in CreatedFrom(m) : p.label = RuleLabel(m.token)

\* [CLIENT_NAME] was extracted and labelled "Client Name"
C8_Witness ==
    /\ Extracted
    /\ content = Delimited(nameClientName, 2)
    /\ Len(placeholders) = 1
    /\ placeholders[1].label = labelClientName

\* C9: required is false exactly when the normalized lower-cased token
\* contains "optional" or "if applicable".
C9_RequiredUnlessOptional ==
    Extracted =>
        \A m \in FirstMatches(content) :
            \A p \in CreatedFrom(m) :
                p.required =
                    ~(\/ includes(toLowerCase(Normalized(m.token)), kwOptional)
                      \/ includes(toLowerCase(Normalized(m.token)), kwIfApplicable))

\* {{suite_if_applicable}} was extracted as not required
C9_Witness ==
    /\ Extracted
    /\ content = docSuite
    /\ \E i \in 1..Len(placeholders) :
         /\ placeholders[i].originalText = docSuite
         /\ placeholders[i].required = FALSE


(***************************************************************************)
(* The filling workflow: fillPlaceholders on a content and a Placeholder   *)
(* set, then fillPlaceholders on its result with the same set.             *)
(***************************************************************************)
tokBraces == <<"{","{","X","}","}">>
tokBrackets == <<"[","X","]">>
tokBrace == <<"{","X","}">>
tokAngles == <<"<","<","x",">",">">>
tokName == <<"{","{","n","a","m","e","}","}">>
tokAmount == <<"{","{","a","m","o","u","n","t","}","}">>

FillPieces == { tokBraces, tokBrackets, tokBrace, <<"X">> }

FillTokens == { tokBraces, tokBrackets, tokBrace }

FillValues == { Absent, Some(<<>>), Some(<<"Y">>), Some(tokBrace), Some(<<"$", "&">>) }

\* a Placeholder as the application holds it: created for the token, then
\* given a value
WithValue(originalText, token, v) ==
    [createPlaceholder(token, originalText, 0) EXCEPT !.value = v]

setXY == << WithValue(docX, <<"x">>, Some(<<"Y">>)) >>
setHello ==
    << WithValue(tokName, <<"n","a","m","e">>, Some(<<"A","l","i","c","e">>)),
       WithValue(tokAmount, <<"a","m","o","u","n","t">>, Some(<<"1","0">>)) >>
setAngles == << WithValue(tokAngles, <<"x">>, Some(<<"Y">>)) >>
docAngles == tokAngles \o <<" ">> \o tokBrackets \o tokAngles

ExampleFills ==
    { <<docDuplicate, setXY>>, <<docHello, setHello>>, <<docAngles, setAngles>> }

\* fillPlaceholders(c, ps)
FillOn(c, ps) ==
    /\ fillContent' = c
    /\ fillSet' = ps
    /\ filledContent' = fillPlaceholders(c, ps)
    /\ pc' = "filled"
    /\ UNCHANGED <<refilledContent, notFillVars>>

\* a call on at most MaxFillPieces pieces and at most MaxFillSet Placeholders
\* with distinct originalText
FillPieced ==
    /\ pc = "idle"
    /\ \E n \in 0..MaxFillPieces, m \in 1..MaxFillSet :
         \E cs \in [1..n -> FillPieces], ts \in [1..m -> FillTokens],
            vs \in [1..m -> FillValues] :
             /\ \A i, j \in 1..m : i # j => ts[i] # ts[j]
             /\ FillOn(Flatten(cs), [i \in 1..m |-> WithValue(ts[i], <<"x">>, vs[i])])

\* a call on one of the worked examples
FillExample ==
    /\ pc = "idle"
    /\ \E input \in ExampleFills : FillOn(input[1], input[2])

Fill == FillPieced \/ FillExample

\* fillPlaceholders(filledContent, ps): the already filled content again
Refill ==
    /\ pc = "filled"
    /\ refilledContent' = fillPlaceholders(filledContent, fillSet)
    /\ pc' = "refilled"
    /\ UNCHANGED <<fillContent, fillSet, filledContent, notFillVars>>

NextFill == Fill \/ Refill

SpecFill == Init /\ [][NextFill]_vars


(***************************************************************************)
(* What the filling claims speak of: literal occurrences of a text.        *)
(***************************************************************************)
Filled == pc \in {"filled", "refilled"}

\* a Placeholder has a value: one that is defined and not empty
HasValue(p) == p.value # Absent /\ Len(p.value[1]) > 0

\* the positions at which t occurs in s, letter by letter
Occurrences(s, t) == {i \in 1..Len(s) : OccursAt(s, t, i)}

RECURSIVE LiteralReplaceAll(_, _, _, _)
\* s from position from on, with every occurrence of the literal text t,
\* found from left to right, replaced by what String.replace puts for v
LiteralReplaceAll(s, t, v, from) ==
    LET later == {i \in Occurrences(s, t) : i >= from}
    IN  IF later = {} THEN Slice(s, from, Len(s))
        ELSE LET i == CHOOSE x \in later : \A y \in later : x <= y
             IN  Slice(s, from, i - 1)
                 \o GetSubstitution(v, t, Slice(s, 1, i - 1),
                                    Slice(s, i + Len(t), Len(s)))
                 \o LiteralReplaceAll(s, t, v, i + Len(t))

RECURSIVE LiteralFill(_, _)
\* the Placeholders with a value taken in list order, each replaced
\* literally and everywhere in the content as it stands at its turn
LiteralFill(s, ps) ==
    IF ps = <<>> THEN s
    ELSE LiteralFill(IF HasValue(Head(ps))
                     THEN LiteralReplaceAll(s, Head(ps).originalText,
                                            Head(ps).value[1], 1)
                     ELSE s,
                     Tail(ps))

docDuplicateFilled == <<"Y"," ","a","n","d"," ","Y"," ","a","g","a","i","n">>
docHelloFilled == <<"H","e","l","l","o"," ","A","l","i","c","e",","," ","t","o","t","a","l"," ","1","0">>

\* C3: fillPlaceholders replaces every occurrence (not only the first) of
\* the originalText of every Placeholder with a non-empty value, taking
\* originalText as a literal string whatever regex metacharacters it holds;
\* "{{x}} and {{x}} again" with x = "Y" gives "Y and Y again" and
\* "Hello {{name}}, total {{amount}}" with Alice and 10 gives
\* "Hello Alice, total 10".
C3_FillEveryLiteralOccurrence ==
    Filled =>
        /\ filledContent = LiteralFill(fillContent, fillSet)
        /\ (fillContent = docDuplicate /\ fillSet = setXY)
               => filledContent = docDuplicateFilled
        /\ (fillContent = docHello /\ fillSet = setHello)
               => filledContent = docHelloFilled

\* a token of brackets occurring twice was replaced at both places
C3_Witness ==
    /\ Filled
    /\ \E i \in 1..Len(fillSet) :
         /\ fillSet[i].originalText = tokBrackets
         /\ fillSet[i].value = Some(<<"Y">>)
         /\ Cardinality(Occurrences(fillContent, tokBrackets)) = 2
         /\ filledContent = <<"Y", "Y">>

RECURSIVE SelectValued(_)
\* the Placeholders of a list that have a value, in order
SelectValued(ps) ==
    IF ps = <<>> THEN <<>>
    ELSE (IF HasValue(Head(ps)) THEN <<Head(ps)>> ELSE <<>>) \o SelectValued(Tail(ps))

\* C4 as stated: the occurrences of the originalText of a Placeholder
\* without value are the same in the output as in the input, whatever the
\* values of the other Placeholders.
C4_UnvaluedOccurrencesKept ==
    Filled =>
        \A i \in 1..Len(fillSet) :
            ~HasValue(fillSet[i]) =>
                Cardinality(Occurrences(filledContent, fillSet[i].originalText))
                    = Cardinality(Occurrences(fillContent, fillSet[i].originalText))

\* C4 as amended: fillPlaceholders makes no substitution for a Placeholder
\* without value: the output is that of filling with the valued Placeholders
\* alone, and the content itself when no Placeholder has a value.
C4_UnvaluedNotSubstituted ==
    Filled =>
        /\ filledContent = fillPlaceholders(fillContent, SelectValued(fillSet))
        /\ SelectValued(fillSet) = <<>> => filledContent = fillContent

\* the token of a Placeholder with an empty value is still in the output
\* although another Placeholder of the set was filled
C4_Witness ==
    /\ Filled
    /\ filledContent # fillContent
    /\ \E i \in 1..Len(fillSet) :
         /\ fillSet[i].value = Some(<<>>)
         /\ Occurrences(fillContent, fillSet[i].originalText) # {}
         /\ Occurrences(filledContent, fillSet[i].originalText) # {}

\* C5 as stated: filling is idempotent for every content and set.
C5_FillIdempotent ==
    pc = "refilled" => refilledContent = filledContent

\* C5 as amended: filling already filled content changes nothing whenever
\* the filled content holds no occurrence of the originalText of a
\* Placeholder with a value.
C5_FillIdempotentWhenTokensGone ==
    (/\ pc = "refilled"
     /\ \A i \in 1..Len(fillSet) :
          HasValue(fillSet[i]) => Occurrences(filledContent, fillSet[i].originalText) = {})
        => refilledContent = filledContent

\* content whose tokens were all replaced was filled again and came out the
\* same
C5_Witness ==
    /\ pc = "refilled"
    /\ filledContent # fillContent
    /\ \E i \in 1..Len(fillSet) : HasValue(fillSet[i])
    /\ \A i \in 1..Len(fillSet) :
          HasValue(fillSet[i]) => Occurrences(filledContent, fillSet[i].originalText) = {}
    /\ refilledContent = filledContent


(***************************************************************************)
(* The validation workflow: validatePlaceholders on a Placeholder set.     *)
(***************************************************************************)
valEmailGood == <<"a","@","b",".","c","o">>
valEmailBad == <<"n","o","t","-","a","n","-","e","m","a","i","l">>
valNumber == <<"1","0">>
valDate == <<"2","0","2","4","-","0","1","-","1","5">>
valWord == <<"Y">>

BlankValues == { Absent, Some(<<>>), Some(<<" ">>) }

\* type and value of a Placeholder handed to validation
ValShapes ==
    ({"text", "email", "date"} \X BlankValues)
    \cup { <<"email", Some(valEmailGood)>>, <<"email", Some(valEmailBad)>>,
           <<"number", Some(valNumber)>>, <<"number", Some(valWord)>>,
           <<"date", Some(valDate)>>, <<"date", Some(valWord)>>,
           <<"text", Some(valWord)>> }

\* the Placeholder at position i of a set: its label is the i-th letter
ValPlaceholder(i, shape, required) ==
    [id |-> i,
     label |-> <<upperAlpha[i]>>,
     originalText |-> <<"{", "{", lowerAlpha[i], "}", "}">>,
     type |-> shape[1],
     required |-> required,
     description |-> DescriptionOf(shape[1]),
     value |-> shape[2]]

\* validatePlaceholders(ps) and validateForDownload(ps) on the same set
Validate ==
    /\ pc = "idle"
    /\ \E n \in 1..MaxValSet :
         \E sh \in [1..n -> ValShapes], rq \in [1..n -> BOOLEAN], hostParses \in BOOLEAN :
             \E ps \in {[i \in 1..n |-> ValPlaceholder(i, sh[i], rq[i])]} :
                 /\ valSet' = ps
                 /\ validation' = validatePlaceholders(ps, hostParses)
                 /\ downloadValidation' = validateForDownload(ps, hostParses)
    /\ pc' = "validated"
    /\ UNCHANGED notValVars

\* the characters email values are made of
EmailChars == {"a", "@", ".", " "}

\* both validators on one email Placeholder holding a string of at most
\* MaxEmailLen characters
ValidateEmail ==
    /\ pc = "idle"
    /\ \E n \in 1..MaxEmailLen :
         \E v \in [1..n -> EmailChars], required \in BOOLEAN, hostParses \in BOOLEAN :
             \E ps \in {<<ValPlaceholder(1, <<"email", Some(v)>>, required)>>} :
                 /\ valSet' = ps
                 /\ validation' = validatePlaceholders(ps, hostParses)
                 /\ downloadValidation' = validateForDownload(ps, hostParses)
    /\ pc' = "validated"
    /\ UNCHANGED notValVars

NextValidate == Validate \/ ValidateEmail

SpecValidate == Init /\ [][NextValidate]_vars

\* the value is absent, empty or made of white space only
Blank(v) == v = Absent \/ \A i \in 1..Len(v[1]) : IsSpace(v[1][i])

\* the errors that name the Placeholder: they start with its label and a
\* space
ErrorsNaming(p) ==
    {k \in 1..Len(validation.errors) :
        OccursAt(validation.errors[k], p.label \o <<" ">>, 1)}

\* C10: a required Placeholder whose value is absent, empty or white space
\* only gets exactly one error, "<label> is required", and no type error;
\* the result is invalid as soon as there is such a Placeholder.
C10_RequiredMissingOneError ==
    pc = "validated" =>
        \A i \in 1..Len(valSet) :
            (valSet[i].required /\ Blank(valSet[i].value)) =>
                /\ Cardinality(ErrorsNaming(valSet[i])) = 1
                /\ \A k \in ErrorsNaming(valSet[i]) :
                     validation.errors[k] = valSet[i].label \o msgRequired
                /\ validation.isValid = FALSE

\* a required email Placeholder holding white space only was reported once,
\* as missing
C10_Witness ==
    /\ pc = "validated"
    /\ \E i \in 1..Len(valSet) :
         /\ valSet[i].required
         /\ valSet[i].type = "email"
         /\ valSet[i].value = Some(<<" ">>)
         /\ Cardinality(ErrorsNaming(valSet[i])) = 1
         /\ ~validation.isValid

\* the Placeholder is required and its value is absent, empty or white space
MissingRequired(p) == p.required /\ Blank(p.value)

\* the Placeholder holds a value that its type rejects
TypeInvalid(p, hostParses) ==
    /\ p.value # Absent
    /\ p.value[1] # <<>>
    /\ \/ p.type = "email" /\ ~isValidEmail(p.value[1])
       \/ p.type = "number" /\ NumberIsNaN(p.value[1])
       \/ p.type = "date" /\ ~isValidDate(p.value[1], hostParses)

\* the positions of ps that validation has to report
Failing(ps, hostParses) ==
    {i \in 1..Len(ps) : MissingRequired(ps[i]) \/ TypeInvalid(ps[i], hostParses)}

\* the error of a reported Placeholder
MessageFor(p) ==
    p.label \o (IF MissingRequired(p) THEN msgRequired
                ELSE CASE p.type = "email" -> msgEmail
                       [] p.type = "number" -> msgNumber
                       [] OTHER -> msgDate)

\* C11: validatePlaceholders does not stop at the first failure: errors
\* holds one entry for every Placeholder that is required and missing or
\* holds a value its type rejects, in Placeholder order, and isValid is true
\* exactly when errors is empty.
C11_ErrorsAccumulate ==
    pc = "validated" =>
        /\ validation.isValid = (validation.errors = <<>>)
        /\ \E hostParses \in BOOLEAN :
             LET failing == Failing(valSet, hostParses)
             IN  /\ Len(validation.errors) = Cardinality(failing)
                 /\ \A i \in failing :
                      validation.errors[Cardinality({j \in failing : j <= i})]
                          = MessageFor(valSet[i])

\* a missing required Placeholder was followed by one with a bad value, and
\* both were reported, in that order
C11_Witness ==
    /\ pc = "validated"
    /\ Len(valSet) = 2
    /\ MissingRequired(valSet[1])
    /\ valSet[2].value = Some(valEmailBad)
    /\ validation.errors = <<valSet[1].label \o msgRequired, valSet[2].label \o msgEmail>>
    /\ ~validation.isValid

\* the shape the claim gives a valid email: no white space, an @ with text
\* before it, and after it a dot with text on both sides
ClaimedEmailShape(v) ==
    /\ \A i \in 1..Len(v) : ~IsSpace(v[i])
    /\ \E a, d \in 1..Len(v) :
         /\ v[a] = "@" /\ v[d] = "."
         /\ 1 < a /\ a + 1 < d /\ d < Len(v)

\* the same shape with exactly one @ in the value
OneAtEmailShape(v) ==
    /\ ClaimedEmailShape(v)
    /\ Cardinality({i \in 1..Len(v) : v[i] = "@"}) = 1

\* validation ran on a single email Placeholder holding a non-blank value
EmailValidated ==
    /\ pc = "validated"
    /\ Len(valSet) = 1
    /\ valSet[1].type = "email"
    /\ ~Blank(valSet[1].value)

\* C12 as stated: an email value passes exactly when it has no white space,
\* at least one @ and a dot after it with text on both sides; otherwise it
\* gets exactly one type error.
C12_EmailShapeAtLeastOneAt ==
    EmailValidated =>
        validation.errors =
            (IF ClaimedEmailShape(valSet[1].value[1]) THEN <<>>
             ELSE <<valSet[1].label \o msgEmail>>)

\* C12, amended: an email value passes exactly when it has no white space,
\* exactly one @ with text before it, and after the @ a dot with text on
\* both sides; otherwise it gets exactly one type error.
C12_EmailShapeExactlyOneAt ==
    EmailValidated =>
        validation.errors =
            (IF OneAtEmailShape(valSet[1].value[1]) THEN <<>>
             ELSE <<valSet[1].label \o msgEmail>>)

\* a value with one @ and a dot inside its domain passed
C12_Witness ==
    /\ EmailValidated
    /\ valSet[1].value = Some(<<"a", "@", "a", ".", "a">>)
    /\ validation.errors = <<>>
    /\ validation.isValid

(***************************************************************************)
(* The renderer of src/src/services/documentDownload.ts: the text is cut   *)
(* into lines, blank lines are dropped, and each remaining line, trimmed,  *)
(* becomes a heading (level 1, 2 or 3) or a body paragraph (level 0).      *)
(***************************************************************************)
\* line.length < 100
HeadingLengthLimit == 100

\* /^[A-Z][A-Z\s]+$/
IsAllCaps(line) ==
    /\ Len(line) >= 2
    /\ IsUpper(line[1])
    /\ \A i \in 2..Len(line) : IsUpper(line[i]) \/ IsSpace(line[i])

RECURSIVE DigitsEnd(_, _)
\* first position at or after i that holds no digit
DigitsEnd(line, i) ==
    IF i <= Len(line) /\ IsDigit(line[i]) THEN DigitsEnd(line, i + 1) ELSE i

\* /^\d+\.\s/
IsNumbered(line) ==
    LET k == DigitsEnd(line, 1)
    IN  /\ k > 1
        /\ k + 1 <= Len(line)
        /\ line[k] = "."
        /\ IsSpace(line[k + 1])

\* /^[A-Z][a-z]+:$/
IsTitleColon(line) ==
    /\ Len(line) >= 3
    /\ IsUpper(line[1])
    /\ \A i \in 2..(Len(line) - 1) : IsLower(line[i])
    /\ line[Len(line)] = ":"

\* /^[A-Z].*[^.]$/ on a text without line breaks
IsCapitalNoPeriod(line) ==
    /\ Len(line) >= 2
    /\ IsUpper(line[1])
    /\ line[Len(line)] # "."

\* a heading test without the length limit
isHeadingAnyLength(line) ==
    LET t == trim(line)
    IN  IsAllCaps(t) \/ IsNumbered(t) \/ IsTitleColon(t) \/ IsCapitalNoPeriod(t)

\* headingPatterns.some(p => p.test(line.trim())) && line.length < 100
isHeading(line) ==
    LET t == trim(line)
    IN  /\ IsAllCaps(t) \/ IsNumbered(t) \/ IsTitleColon(t) \/ IsCapitalNoPeriod(t)
        /\ Len(line) < HeadingLengthLimit

\* HeadingLevel.HEADING_1 / _2 / _3 as 1, 2, 3
getHeadingLevel(line) ==
    IF IsNumbered(line) THEN 2
    ELSE IF IsAllCaps(line) THEN 1
    ELSE 3

\* the Paragraph pushed for one non-blank line; heading 0 is a body paragraph
ParagraphOf(line) ==
    LET trimmedLine == trim(line)
    IN  IF isHeading(trimmedLine)
        THEN [text |-> trimmedLine, heading |-> getHeadingLevel(trimmedLine), bold |-> TRUE]
        ELSE [text |-> trimmedLine, heading |-> 0, bold |-> FALSE]

RECURSIVE ParagraphsOf(_)
\* lines.forEach over text.split("\n").filter(line => line.trim() !== "")
ParagraphsOf(lines) ==
    IF lines = <<>> THEN <<>>
    ELSE IF trim(Head(lines)) = <<>> THEN ParagraphsOf(Tail(lines))
    ELSE <<ParagraphOf(Head(lines))>> \o ParagraphsOf(Tail(lines))

parseTextToParagraphs(text) == ParagraphsOf(split(text, "\n"))

\* the pieces a line is made of
LinePieces == { <<"A">>, <<"b">>, <<"1", ".">>, <<" ">>, <<".">>, <<":">> }

\* the length a line is stretched to: 0 leaves it as it is
Stretches == {0, HeadingLengthLimit - 1, HeadingLengthLimit}

RECURSIVE Repeat(_, _)
Repeat(c, n) == IF n <= 0 THEN <<>> ELSE <<c>> \o Repeat(c, n - 1)

\* the pieces joined, with capital letters put before the last piece until
\* the line has the given length
Stretched(ps, length) ==
    IF ps = <<>> THEN <<>>
    ELSE LET front == Flatten(SubSeq(ps, 1, Len(ps) - 1))
             last == ps[Len(ps)]
         IN  front \o Repeat("A", length - Len(front) - Len(last)) \o last

lineSectionOne == <<"S","E","C","T","I","O","N"," ","O","N","E">>
lineParties == <<"1","."," ","P","a","r","t","i","e","s">>
lineSentence == <<"T","h","e"," ","p","a","r","t","i","e","s"," ","a","g","r","e","e",".">>

\* what follows the first line of the text
RestOfText ==
    { <<>>, <<"\n", " ", "\n">> \o lineSectionOne, <<"\n">> \o lineParties,
      <<"\n">> \o lineSentence \o <<"\n">> }

\* parseTextToParagraphs(text)
RenderOn(text) ==
    /\ renderText' = text
    /\ paragraphs' = parseTextToParagraphs(text)
    /\ pc' = "rendered"
    /\ UNCHANGED notRenderVars

\* a text whose first line is made of at most MaxLinePieces pieces, possibly
\* stretched and indented
Render ==
    /\ pc = "idle"
    /\ \E n \in 0..MaxLinePieces :
         \E ps \in [1..n -> LinePieces], length \in Stretches,
            indent \in {<<>>, <<" ">>}, rest \in RestOfText :
             RenderOn(indent \o Stretched(ps, length) \o rest)

NextRender == Render

SpecRender == Init /\ [][NextRender]_vars

\* the non-blank lines of the text, trimmed, in order
RECURSIVE TrimmedLines(_)
TrimmedLines(lines) ==
    IF lines = <<>> THEN <<>>
    ELSE (IF \A i \in 1..Len(Head(lines)) : IsSpace(Head(lines)[i]) THEN <<>>
          ELSE <<trim(Head(lines))>>) \o TrimmedLines(Tail(lines))

\* made of upper-case letters and spaces only
OnlyUpperAndSpaces(line) ==
    \A i \in 1..Len(line) : IsUpper(line[i]) \/ line[i] = " "

\* starts with a decimal number, a period and a space
StartsNumbered(line) ==
    \E k \in 1..Len(line) :
        /\ \A i \in 1..k : IsDigit(line[i])
        /\ k + 2 <= Len(line)
        /\ line[k + 1] = "."
        /\ line[k + 2] = " "

\* a capitalised word followed by a colon, or a line with a capital initial
\* that does not end in a period
OtherHeadingPattern(line) ==
    \/ /\ Len(line) >= 3
       /\ IsUpper(line[1])
       /\ \A i \in 2..(Len(line) - 1) : IsLower(line[i])
       /\ line[Len(line)] = ":"
    \/ /\ line # <<>>
       /\ IsUpper(line[1])
       /\ line[Len(line)] # "."

\* the level the rules of the claim give a line, 0 for body
ClaimedLevel(line) ==
    IF OnlyUpperAndSpaces(line) THEN 1
    ELSE IF StartsNumbered(line) THEN 2
    ELSE IF /\ OnlyUpperAndSpaces(line) \/ StartsNumbered(line) \/ OtherHeadingPattern(line)
            /\ Len(line) < HeadingLengthLimit THEN 3
    ELSE 0

\* the same rules for lines of two to 99 characters; any other line is body
LevelWithinLimit(line) ==
    IF Len(line) < 2 \/ Len(line) >= HeadingLengthLimit THEN 0
    ELSE ClaimedLevel(line)

Rendered == pc = "rendered"

\* C13 as stated: every non-blank line becomes one paragraph, classified by
\* (a) upper-case letters and spaces only: level 1; (b) number, period,
\* space: level 2; (c) another heading pattern and fewer than 100
\* characters: level 3; (d) body.
C13_LineLevels ==
    Rendered =>
        LET ls == TrimmedLines(split(renderText, "\n"))
        IN  /\ Len(paragraphs) = Len(ls)
            /\ \A k \in 1..Len(ls) :
                 /\ paragraphs[k].text = ls[k]
                 /\ paragraphs[k].heading = ClaimedLevel(ls[k])

\* C13, amended: a line of fewer than two or of 100 or more characters is
\* body; any other line is classified by rules (a) to (d).
C13_LineLevelsWithinLimit ==
    Rendered =>
        LET ls == TrimmedLines(split(renderText, "\n"))
        IN  /\ Len(paragraphs) = Len(ls)
            /\ \A k \in 1..Len(ls) :
                 /\ paragraphs[k].text = ls[k]
                 /\ paragraphs[k].heading = LevelWithinLimit(ls[k])

\* an all-caps line of 99 characters became a level 1 heading and
\* "1. Parties" after it a level 2 heading
C13_Witness ==
    /\ Rendered
    /\ Len(paragraphs) = 2
    /\ Len(paragraphs[1].text) = HeadingLengthLimit - 1
    /\ paragraphs[1].heading = 1
    /\ paragraphs[2].text = lineParties
    /\ paragraphs[2].heading = 2

(***************************************************************************)
(* The document preview (DocumentPreview component): the content is filled *)
(* by documentParser.fillPlaceholders, and what is still unfilled is       *)
(* wrapped in a marker by highlightUnfilledPlaceholders.                   *)
(***************************************************************************)
markerOpenStart == <<"<","s","p","a","n"," ","c","l","a","s","s","=","\"","u","n","f","i","l","l","e","d","-","p","l","a","c","e","h","o","l","d","e","r","\""," ","t","i","t","l","e","=","\"","U","n","f","i","l","l","e","d",":"," ">>
markerOpenEnd == <<"\"",">">>
markerClose == <<"<","/","s","p","a","n",">">>

RECURSIVE GetSubstitutionGroup(_, _, _, _)
\* the replacement text of String.prototype.replace for a pattern whose one
\* capture group is the whole match: as GetSubstitution, and $1 or $01 is
\* the group; the text up to the next dollar sign stands for itself
GetSubstitutionGroup(replacement, matched, before, after) ==
    LET dollars == {i \in 1..Len(replacement) : replacement[i] = "$"}
        d == CHOOSE i \in dollars : \A j \in dollars : i <= j
        n == Len(replacement)
    IN  IF dollars = {} THEN replacement
        ELSE Slice(replacement, 1, d - 1) \o
             (IF d + 2 <= n /\ replacement[d + 1] = "0" /\ replacement[d + 2] = "1"
              THEN matched \o GetSubstitutionGroup(Slice(replacement, d + 3, n),
                                                   matched, before, after)
              ELSE IF d + 1 <= n /\ replacement[d + 1] \in {"$", "&", "`", "'", "1"}
              THEN (CASE replacement[d + 1] = "$" -> <<"$">>
                      [] replacement[d + 1] = "&" -> matched
                      [] replacement[d + 1] = "1" -> matched
                      [] replacement[d + 1] = "`" -> before
                      [] replacement[d + 1] = "'" -> after)
                   \o GetSubstitutionGroup(Slice(replacement, d + 2, n),
                                           matched, before, after)
              ELSE <<"$">> \o GetSubstitutionGroup(Slice(replacement, d + 1, n),
                                                   matched, before, after))

RECURSIVE ReplaceGroupFrom(_, _, _, _)
\* s.replace(/(atoms)/g, replacement), the part of the result from position
\* from on
ReplaceGroupFrom(s, atoms, replacement, from) ==
    LET i == RegExpSearch(atoms, s, from)
        n == Len(atoms)
    IN  IF i = 0 THEN Slice(s, from, Len(s))
        ELSE Slice(s, from, i - 1)
             \o GetSubstitutionGroup(replacement, Slice(s, i, i + n - 1),
                                     Slice(s, 1, i - 1), Slice(s, i + n, Len(s)))
             \o ReplaceGroupFrom(s, atoms, replacement, i + n)

\* !placeholder.value || placeholder.value.trim() === ''
Unfilled(p) ==
    p.value = Absent \/ p.value[1] = <<>> \/ trim(p.value[1]) = <<>>

\* the body of the forEach callback of highlightUnfilledPlaceholders
HighlightOne(text, p) ==
    IF Unfilled(p)
    THEN ReplaceGroupFrom(text, ParsePattern(EscapeRegExp(p.originalText)),
                          markerOpenStart \o p.label \o markerOpenEnd
                              \o <<"$", "1">> \o markerClose,
                          1)
    ELSE text

RECURSIVE highlightUnfilledPlaceholders(_, _)
highlightUnfilledPlaceholders(text, ps) ==
    IF ps = <<>> THEN text
    ELSE highlightUnfilledPlaceholders(HighlightOne(text, Head(ps)), Tail(ps))

\* the values the user has given
PreviewValues == { Absent, Some(<<" ">>), Some(<<"Y">>) }

\* the effect on [originalContent, placeholders]: updatePreview.  The
\* Placeholders are those extracted from the content, with the values given
\* so far
UpdatePreview ==
    /\ pc = "idle"
    /\ \E n \in 0..MaxPreviewPieces :
         \E cs \in [1..n -> Pieces] :
             \E c \in {Flatten(cs)} :
                 \E ps \in {extractPlaceholders(c, {}, 1)} :
                     \E vs \in [1..Len(ps) -> PreviewValues] :
                         \E set \in {[i \in 1..Len(ps) |-> [ps[i] EXCEPT !.value = vs[i]]]} :
                             /\ previewContent' = c
                             /\ previewSet' = set
                             /\ previewFilled' = fillPlaceholders(c, set)
    /\ pc' = "previewed"
    /\ UNCHANGED <<displayContent, notPreviewVars>>

\* the render with showPlaceholders on
DisplayHighlighted ==
    /\ pc = "previewed"
    /\ displayContent' = highlightUnfilledPlaceholders(previewFilled, previewSet)
    /\ pc' = "displayed"
    /\ UNCHANGED <<previewContent, previewSet, previewFilled, notPreviewVars>>

NextPreview == UpdatePreview \/ DisplayHighlighted

SpecPreview == Init /\ [][NextPreview]_vars

\* the marker that opens around an unfilled occurrence of p
MarkerOpen(p) == markerOpenStart \o p.label \o markerOpenEnd

\* the number of occurrences of t in s
CountOf(s, t) == Cardinality(Occurrences(s, t))

RECURSIVE StripMarkers(_, _)
\* s without the opening markers of the Placeholders of ps
StripMarkers(s, ps) ==
    IF ps = <<>> THEN s
    ELSE StripMarkers(LiteralReplaceAll(s, MarkerOpen(Head(ps)), <<>>, 1), Tail(ps))

\* C14: in the highlighted preview every occurrence of the originalText of
\* a Placeholder without a (non-blank) value is wrapped once in a marker
\* carrying that Placeholder's label, nothing of a filled Placeholder is
\* wrapped, and the content without the markers is the filled content.
C14_UnfilledWrappedOnce ==
    pc = "displayed" =>
        /\ \A i \in 1..Len(previewSet) :
             LET p == previewSet[i]
                 wrapped == MarkerOpen(p) \o p.originalText \o markerClose
             IN  IF Blank(p.value)
                 THEN CountOf(displayContent, wrapped)
                          = CountOf(previewFilled, p.originalText)
                 ELSE CountOf(displayContent, MarkerOpen(p)) = 0
        /\ LiteralReplaceAll(StripMarkers(displayContent, previewSet),
                             markerClose, <<>>, 1) = previewFilled

(***************************************************************************)
(* ApiService.request of src/src/services/apiService.ts.  Each attempt of  *)
(* a call makes an AbortController, named here by the call and its         *)
(* retryCount, stores it in the shared field this.abortController, sets a  *)
(* timeout timer and starts a fetch.  A call is idle (not started),        *)
(* fetching, in backoff (inside this.delay) or done.  outcomes and delays  *)
(* record what each fetch of the call ended with and the delays waited.    *)
(***************************************************************************)
\* config.retries
Retries == 3

Calls == 1..MaxCalls

\* what a fetch ends with: a response status, a network failure, or an abort
Statuses == {"200", "404", "500"}

ServerError(status) == status = "500"
Ok(status) == status = "200"

RECURSIVE Pow2(_)
\* Math.pow(2, k)
Pow2(k) == IF k = 0 THEN 1 ELSE 2 * Pow2(k - 1)

\* who aborted a controller: a timer, named as the controller it was set
\* for, or cancelRequests
byCancelRequests == <<0, 0>>

\* the controller made by the current attempt of call c
ControllerOf(c) == <<c, apiCalls[c].retryCount>>

\* the signal of the current attempt of call c is aborted
SignalAborted(c) == \E a \in aborted : a.controller = ControllerOf(c)

\* controller.abort() by a timer or by cancelRequests: it reaches a fetch
\* only while that fetch is in flight
Abort(controller, by) ==
    IF /\ controller # <<>>
       /\ apiCalls[controller[1]].phase = "fetching"
       /\ ControllerOf(controller[1]) = controller
    THEN aborted \cup {[controller |-> controller, by |-> by]}
    ELSE aborted

\* a retry after every failed response
ShouldRetryAnyFailure(status, retryCount) ==
    ~Ok(status) /\ retryCount < Retries

\* response.status >= 500 && retryCount < (this.config.retries || 0)
ShouldRetry(status, retryCount) ==
    ServerError(status) /\ retryCount < Retries

\* request(endpoint, options) up to its first await: the controller is
\* stored, the timer set, the fetch started; calls are numbered in the order
\* they are made
StartRequest(c) ==
    /\ apiCalls[c].phase = "idle"
    /\ \A d \in 1..(c - 1) : apiCalls[d].phase # "idle"
    /\ apiCalls' = [apiCalls EXCEPT ![c].phase = "fetching", ![c].attempts = 1]
    /\ abortController' = <<c, 0>>
    /\ timers' = timers \cup {<<c, 0>>}
    /\ UNCHANGED <<aborted, pendingAtCancel, notApiVars>>

\* the fetch of call c resolves with a response: the timer is cleared; a
\* 5xx below the retry cap starts the backoff delay, anything else ends the
\* call, and the finally block clears this.abortController
Respond(c, status) ==
    /\ apiCalls[c].phase = "fetching"
    /\ ~SignalAborted(c)
    /\ timers' = timers \ {ControllerOf(c)}
    /\ IF Ok(status)
       THEN /\ apiCalls' = [apiCalls EXCEPT
                               ![c].phase = "done",
                               ![c].outcomes = Append(@, status),
                               ![c].result = "success"]
            /\ abortController' = <<>>
       ELSE IF ShouldRetry(status, apiCalls[c].retryCount)
       THEN /\ apiCalls' = [apiCalls EXCEPT
                               ![c].phase = "backoff",
                               ![c].outcomes = Append(@, status),
                               ![c].delays =
                                   Append(@, Pow2(apiCalls[c].retryCount) * 1000)]
            /\ UNCHANGED abortController
       ELSE /\ apiCalls' = [apiCalls EXCEPT
                               ![c].phase = "done",
                               ![c].outcomes = Append(@, status),
                               ![c].result = "error"]
            /\ abortController' = <<>>
    /\ UNCHANGED <<aborted, pendingAtCancel, notApiVars>>

\* the fetch of call c rejects for a network failure: clearTimeout is not
\* reached, the catch block returns the error, finally clears the field
FetchFails(c) ==
    /\ apiCalls[c].phase = "fetching"
    /\ ~SignalAborted(c)
    /\ apiCalls' = [apiCalls EXCEPT
                       ![c].phase = "done",
                       ![c].outcomes = Append(@, "network"),
                       ![c].result = "error"]
    /\ abortController' = <<>>
    /\ UNCHANGED <<aborted, timers, pendingAtCancel, notApiVars>>

\* the fetch of call c rejects with AbortError: "Request cancelled"
FetchAborted(c) ==
    /\ apiCalls[c].phase = "fetching"
    /\ \E a \in aborted :
         /\ a.controller = ControllerOf(c)
         /\ apiCalls' = [apiCalls EXCEPT
                            ![c].phase = "done",
                            ![c].outcomes =
                                Append(@, IF a.by = byCancelRequests THEN "cancelled"
                                          ELSE IF a.by = ControllerOf(c) THEN "timeout"
                                          ELSE "foreignTimeout"),
                            ![c].result = "cancelled"]
    /\ aborted' = {a \in aborted : a.controller # ControllerOf(c)}
    /\ abortController' = <<>>
    /\ UNCHANGED <<timers, pendingAtCancel, notApiVars>>

\* the delay of call c is over: return this.request(..., retryCount + 1)
\* runs the next attempt up to its first await, and then the finally block
\* of the returning attempt clears this.abortController
BackoffEnds(c) ==
    /\ apiCalls[c].phase = "backoff"
    /\ apiCalls' = [apiCalls EXCEPT
                       ![c].phase = "fetching",
                       ![c].retryCount = @ + 1,
                       ![c].attempts = @ + 1]
    /\ timers' = timers \cup {<<c, apiCalls[c].retryCount + 1>>}
    /\ abortController' = <<>>
    /\ UNCHANGED <<aborted, pendingAtCancel, notApiVars>>

\* a timeout timer fires: () => this.abortController?.abort()
TimerFires(t) ==
    /\ t \in timers
    /\ timers' = timers \ {t}
    /\ aborted' = Abort(abortController, t)
    /\ UNCHANGED <<apiCalls, abortController, pendingAtCancel, notApiVars>>

\* cancelRequests(), run once
CancelRequests ==
    /\ pendingAtCancel = <<>>
    /\ \E c \in Calls : apiCalls[c].phase \in {"fetching", "backoff"}
    /\ pendingAtCancel' =
           << [c \in {d \in Calls : apiCalls[d].phase \in {"fetching", "backoff"}}
                  |-> apiCalls[c].attempts] >>
    /\ aborted' = Abort(abortController, byCancelRequests)
    /\ abortController' = <<>>
    /\ UNCHANGED <<apiCalls, timers, notApiVars>>

NextApi ==
    \/ \E c \in Calls : StartRequest(c)
    \/ \E c \in Calls, status \in Statuses : Respond(c, status)
    \/ \E c \in Calls : FetchFails(c)
    \/ \E c \in Calls : FetchAborted(c)
    \/ \E c \in Calls : BackoffEnds(c)
    \/ \E t \in timers : TimerFires(t)
    \/ CancelRequests

SpecApi == Init /\ [][NextApi]_vars

\* the delays, in milliseconds, before the first, second, ... retry
ExpectedDelays == <<1000, 2000, 4000, 8000>>

\* C15: a call makes at most Retries + 1 fetches; every fetch after the
\* first follows a 5xx response and a delay of 2^k seconds before retry k;
\* a 4xx response is never retried; a 4xx response, or a 5xx response to
\* fetch Retries + 1, ends the call with success = false and an error.
C15_BoundedBackoffRetries ==
    \A c \in Calls :
        LET a == apiCalls[c]
            n == Len(a.outcomes)
        IN  /\ a.attempts <= Retries + 1
            /\ Len(a.delays) <= Retries
            /\ a.delays = SubSeq(ExpectedDelays, 1, Len(a.delays))
            /\ a.attempts <= Len(a.delays) + 1
            /\ \A k \in 1..(a.attempts - 1) : a.outcomes[k] = "500"
            /\ \A k \in 1..n :
                 a.outcomes[k] = "404" => (k = a.attempts /\ a.phase = "done")
            /\ (n > 0 /\ (a.outcomes[n] = "404"
                          \/ (a.outcomes[n] = "500" /\ n = Retries + 1)))
                   => (a.phase = "done" /\ a.result = "error")

\* a call got a 5xx response to each of its Retries + 1 fetches, waited 1, 2
\* and 4 seconds in between, and ended with an error
C15_Witness ==
    \E c \in Calls :
        /\ apiCalls[c].phase = "done"
        /\ apiCalls[c].attempts = Retries + 1
        /\ apiCalls[c].outcomes = <<"500", "500", "500", "500">>
        /\ apiCalls[c].delays = <<1000, 2000, 4000>>
        /\ apiCalls[c].result = "error"

\* C16: a fetch that times out is retried like a 5xx response: a call ends
\* on a timeout only when the retry cap is reached.
C16_TimeoutRetried ==
    \A c \in Calls :
        LET a == apiCalls[c]
        IN  (a.phase = "done" /\ a.outcomes[Len(a.outcomes)] = "timeout")
                => a.attempts = Retries + 1

\* C17: every call that was pending when cancelRequests() ran makes no
\* further fetch and does not end with success.
C17_CancelStopsPending ==
    pendingAtCancel # <<>> =>
        \A c \in DOMAIN pendingAtCancel[1] :
            /\ apiCalls[c].attempts = pendingAtCancel[1][c]
            /\ apiCalls[c].result # "success"


(***************************************************************************)
(* DocumentUpload (onDrop, validateDocumentUpload) and the AppNew shell:   *)
(* upload, processing, status polling, restart, health check.              *)
(***************************************************************************)
\* DocumentStatus
DocumentStatus ==
    [UPLOADED |-> "uploaded", PROCESSING |-> "processing",
     PROCESSED |-> "processed", COMPLETED |-> "completed", ERROR |-> "error"]

\* validateDocumentUpload: const maxSize
maxSize == 10 * 1024 * 1024

\* validateDocumentUpload: const allowedTypes
allowedTypes ==
    {"application/vnd.openxmlformats-officedocument.wordprocessingml.document",
     "application/msword"}

\* validateDocumentUpload: the longest file name let through
MaxFilenameLength == 255

\* validateDocumentUpload with the size test `>=` in place of `>`
validateDocumentUploadStrictSize(file) ==
    LET errors ==
            IF file = Absent THEN <<"No file provided">>
            ELSE (IF file[1].size >= maxSize
                  THEN <<"File size exceeds 10MB limit">> ELSE <<>>)
                 \o (IF file[1].type \notin allowedTypes
                     THEN <<"Only .docx and .doc files are supported">>
                     ELSE <<>>)
                 \o (IF file[1].nameLength > MaxFilenameLength
                     THEN <<"Filename is too long">> ELSE <<>>)
    IN  [isValid |-> errors = <<>>, errors |-> errors]

\* validateDocumentUpload(file); a file is its size, its type and the
\* length of its name
validateDocumentUpload(file) ==
    LET errors ==
            IF file = Absent THEN <<"No file provided">>
            ELSE (IF file[1].size > maxSize
                  THEN <<"File size exceeds 10MB limit">> ELSE <<>>)
                 \o (IF file[1].type \notin allowedTypes
                     THEN <<"Only .docx and .doc files are supported">>
                     ELSE <<>>)
                 \o (IF file[1].nameLength > MaxFilenameLength
                     THEN <<"Filename is too long">> ELSE <<>>)
    IN  [isValid |-> errors = <<>>, errors |-> errors]

\* the files dropped: sizes, types and name lengths around the limits
FileSizes == {0, maxSize, maxSize + 1}
FileTypes == allowedTypes \cup {"application/pdf"}
FileNameLengths == {1, MaxFilenameLength, MaxFilenameLength + 1}
Files == [size : FileSizes, type : FileTypes, nameLength : FileNameLengths]

\* the status the server reports for a document just uploaded, and the
\* statuses it reports for one it was asked to process or to show
UploadedStatuses == {DocumentStatus.UPLOADED}
ProcessingStatuses ==
    {DocumentStatus.PROCESSING, DocumentStatus.PROCESSED, DocumentStatus.ERROR}

\* a DocumentResponse: its id and its status
Document(id, status) == <<[id |-> id, status |-> status]>>

\* an API request in flight: the endpoint, the document it is about, the
\* handler that awaits it, a number telling apart concurrent requests of one
\* kind, and what the server will answer
Request(kind, doc, from, slot) ==
    [kind |-> kind, doc |-> doc, from |-> from, slot |-> slot, data |-> 0]

\* GET /documents/{id}/placeholders: the server reads its list when the
\* request is made; the answer may arrive any time later
\* a request whose answer is a success, a failure response or a thrown error
RequestWith(kind, doc, from, slot, outcome) ==
    [Request(kind, doc, from, slot) EXCEPT !.data = outcome]

PlaceholdersRequestAt(doc, from, slot, filled) ==
    [Request("placeholders", doc, from, slot) EXCEPT !.data = filled]

PlaceholdersRequest(doc, from, slot) ==
    PlaceholdersRequestAt(doc, from, slot, serverFilled[doc])

\* the PlaceholderResponse list of a document of which the first filled
\* fields have a value
PlaceholdersOf(doc, filled) ==
    [i \in 1..DocFields |->
        [id |-> i, document_id |-> doc, is_filled |-> i <= filled,
         filled_value |-> IF i <= filled THEN <<<<"v">>>> ELSE <<>>]]

\* setInterval( ..., 2000 )
PollInterval == 2000

\* the dependency of the polling effect: document?.status
StatusOf(doc) == IF doc = <<>> THEN "undefined" ELSE doc[1].status

\* the polling effect without its cleanup function
PollEffectNoCleanup(before, after, timer) ==
    IF StatusOf(before) = StatusOf(after) THEN timer
    ELSE IF after # <<>> /\ after[1].status = DocumentStatus.PROCESSING
         THEN <<[doc |-> after[1].id, every |-> PollInterval]>>
         ELSE timer

\* the polling effect on a render that changes document from before to
\* after: when document?.status changed, the cleanup clears the interval and
\* the effect sets a new one if the status is PROCESSING; the interval's
\* callback keeps the document of that render
PollEffect(before, after, timer) ==
    IF StatusOf(before) = StatusOf(after) THEN timer
    ELSE IF after # <<>> /\ after[1].status = DocumentStatus.PROCESSING
         THEN <<[doc |-> after[1].id, every |-> PollInterval]>>
         ELSE <<>>

\* the chat is rendered in the 'conversation' state of a document
ChatRendered(sh) == sh.currentState = "conversation" /\ sh.document # <<>>

\* placeholders.filter( p => !p.is_filled ).length === 0 && length > 0
AllFilled(list) ==
    /\ Len(list) > 0
    /\ \A i \in 1..Len(list) : list[i].is_filled

\* the effect of ApiConversationalInterface on [ placeholders ]: a new list
\* without unfilled entries runs handleConversationComplete, which calls
\* onComplete unless the chat is completed already
CompletesByList(next, nextChat) ==
    /\ ChatRendered(next)
    /\ nextChat # <<>>
    /\ next.placeholders # shell.placeholders
    /\ AllFilled(next.placeholders)
    /\ ~nextChat[1].isCompleted

\* the state updates of a handler take effect and the effects run;
\* DocumentUpload, and its state with it, exists only in the 'upload' state,
\* ApiConversationalInterface only in the 'conversation' state
RerenderWith(next, nextChat) ==
    /\ shell' = IF CompletesByList(next, nextChat)
                THEN [next EXCEPT !.currentState = "preview"]
                ELSE next
    /\ chat' = IF ChatRendered(next) /\ ~CompletesByList(next, nextChat)
               THEN nextChat
               ELSE <<>>
    /\ pollTimer' = PollEffect(shell.document, next.document, pollTimer)
    /\ dropped' = IF next.currentState = "upload" THEN dropped ELSE <<>>
    /\ validationErrors' = IF next.currentState = "upload"
                           THEN validationErrors ELSE <<>>

Rerender(next) == RerenderWith(next, chat)

\* useEffect( () => { checkApiAvailability(); }, [] )
MountApp ==
    /\ lifecycle = "initial"
    /\ lifecycle' = "mounted"
    /\ requests' = requests \cup {Request("health", 0, "check", 0)}
    /\ UNCHANGED <<shell, pollTimer, apiInfo, drops, dropped, validationErrors,
                   serverFilled, chat>>
    /\ UNCHANGED notAppVars

\* checkApiAvailability, after getApiInfo() resolved
HealthResponds ==
    \E r \in requests : \E isAvailable \in BOOLEAN :
        /\ r.kind = "health"
        /\ requests' = requests \ {r}
        /\ apiInfo' = <<isAvailable>>
        /\ Rerender([shell EXCEPT
               !.isApiAvailable = isAvailable,
               !.error = IF isAvailable THEN @
                         ELSE "Backend API is not available. Using local processing only."])
        /\ UNCHANGED <<lifecycle, drops, serverFilled>>
        /\ UNCHANGED notAppVars

\* DocumentUpload.onDrop up to the upload request
OnDrop ==
    /\ lifecycle = "mounted"
    /\ shell.currentState = "upload"
    /\ ~shell.isLoading
    /\ drops < MaxDrops
    /\ \E file \in Files :
        LET checked == validateDocumentUpload(Some(file))
        IN  /\ dropped' = Some(file)
            /\ drops' = drops + 1
            /\ IF ~checked.isValid
               THEN /\ validationErrors' = checked.errors
                    /\ shell' = [shell EXCEPT
                                    !.error = join(checked.errors, "; ")]
                    /\ requests' = requests
               ELSE /\ validationErrors' = <<>>
                    /\ shell' = shell
                    /\ requests' = requests \cup
                                     {Request("upload", drops + 1, "drop", 0)}
    /\ UNCHANGED <<lifecycle, pollTimer, apiInfo, serverFilled, chat>>
    /\ UNCHANGED notAppVars

\* DocumentUpload.onDrop after uploadDocument resolved; on success
\* onFileUpload is handleFileUpload, up to the process request
UploadResponds ==
    \E r \in requests :
        /\ r.kind = "upload"
        /\ \/ \E status \in UploadedStatuses :
                /\ Rerender([shell EXCEPT
                       !.isLoading = TRUE,
                       !.error = "",
                       !.document = Document(r.doc, status),
                       !.currentState = "processing"])
                /\ requests' = (requests \ {r}) \cup
                                 {Request("process", r.doc, "upload", 0)}
           \/ /\ Rerender([shell EXCEPT !.error = "Upload failed"])
              /\ requests' = requests \ {r}
        /\ UNCHANGED <<lifecycle, apiInfo, drops, serverFilled>>
        /\ UNCHANGED notAppVars

\* handleFileUpload and handleRetryProcessing after processDocument resolved
ProcessResponds ==
    \E r \in requests :
        /\ r.kind = "process"
        /\ \/ \E status \in ProcessingStatuses :
                IF status = DocumentStatus.PROCESSED
                THEN /\ Rerender([shell EXCEPT
                            !.document = Document(r.doc, status)])
                     /\ requests' = (requests \ {r}) \cup
                                      {PlaceholdersRequest(r.doc, r.from, 0)}
                ELSE /\ Rerender([shell EXCEPT
                            !.document = Document(r.doc, status),
                            !.isLoading = IF r.from = "upload" THEN FALSE ELSE @])
                     /\ requests' = requests \ {r}
           \/ /\ Rerender(IF r.from = "upload"
                          THEN [shell EXCEPT
                                   !.error = "Failed to process document",
                                   !.currentState = "upload",
                                   !.isLoading = FALSE]
                          ELSE [shell EXCEPT
                                   !.error = "Failed to retry processing"])
              /\ requests' = requests \ {r}
        /\ UNCHANGED <<lifecycle, apiInfo, drops, serverFilled>>
        /\ UNCHANGED notAppVars

\* the status polls in flight
Polls == {r \in requests : r.kind = "document"}

\* the interval fires: checkDocumentStatus up to the getDocument request
PollTick ==
    /\ pollTimer # <<>>
    /\ Cardinality(Polls) < MaxPolls
    /\ \E slot \in 1..MaxPolls :
        /\ \A r \in Polls : r.slot # slot
        /\ \A s \in 1..(slot - 1) : \E r \in Polls : r.slot = s
        /\ requests' = requests \cup
                         {Request("document", pollTimer[1].doc, "poll", slot)}
    /\ UNCHANGED <<lifecycle, shell, pollTimer, apiInfo, drops, dropped,
                   validationErrors, serverFilled, chat>>
    /\ UNCHANGED notAppVars

\* checkDocumentStatus after getDocument resolved
GetDocumentResponds ==
    \E r \in requests :
        /\ r.kind = "document"
        /\ \/ \E status \in ProcessingStatuses :
                /\ Rerender([shell EXCEPT
                       !.document = Document(r.doc, status)])
                /\ requests' =
                     (requests \ {r}) \cup
                     (IF status = DocumentStatus.PROCESSED
                      THEN {PlaceholdersRequest(r.doc, "poll", 0)}
                      ELSE {})
           \/ /\ requests' = requests \ {r}
              /\ UNCHANGED <<shell, pollTimer, dropped, validationErrors, chat>>
        /\ UNCHANGED <<lifecycle, apiInfo, drops, serverFilled>>
        /\ UNCHANGED notAppVars

\* loadPlaceholders after getDocumentPlaceholders resolved, and what the
\* handler that awaited it does next
PlaceholdersRespond ==
    \E r \in requests : \E success \in BOOLEAN :
        /\ r.kind = "placeholders"
        /\ requests' = requests \ {r}
        /\ Rerender([shell EXCEPT
               !.placeholders = IF success THEN PlaceholdersOf(r.doc, r.data)
                                ELSE @,
               !.currentState = IF r.from = "chat" THEN @ ELSE "conversation",
               !.isLoading = IF r.from = "upload" THEN FALSE ELSE @])
        /\ UNCHANGED <<lifecycle, apiInfo, drops, serverFilled>>
        /\ UNCHANGED notAppVars

\* handleRestart up to the getApiInfo request
Restart ==
    /\ lifecycle = "mounted"
    /\ shell.currentState # "upload"
    /\ Rerender([shell EXCEPT
           !.currentState = "upload",
           !.document = <<>>,
           !.placeholders = <<>>,
           !.error = ""])
    /\ requests' = requests \cup {Request("health", 0, "check", 0)}
    /\ UNCHANGED <<lifecycle, apiInfo, drops, serverFilled>>
    /\ UNCHANGED notAppVars

\* handleRetryProcessing up to the process request
RetryProcessing ==
    /\ lifecycle = "mounted"
    /\ shell.error # ""
    /\ shell.currentState = "processing"
    /\ shell.document # <<>>
    /\ Rerender([shell EXCEPT !.currentState = "processing", !.error = ""])
    /\ requests' = requests \cup
                     {Request("process", shell.document[1].id, "retry", 0)}
    /\ UNCHANGED <<lifecycle, apiInfo, drops, serverFilled>>
    /\ UNCHANGED notAppVars

\* the Dismiss button of the error display
DismissError ==
    /\ lifecycle = "mounted"
    /\ shell.error # ""
    /\ Rerender([shell EXCEPT !.error = ""])
    /\ UNCHANGED <<lifecycle, requests, apiInfo, drops, serverFilled>>
    /\ UNCHANGED notAppVars

\* the component is unmounted: the cleanup of the polling effect runs; the
\* state updates of the handlers still awaiting a response are dropped by
\* React, so these responses are followed no further
Unmount ==
    /\ lifecycle = "mounted"
    /\ lifecycle' = "unmounted"
    /\ pollTimer' = <<>>
    /\ requests' = {}
    /\ chat' = <<>>
    /\ UNCHANGED <<shell, apiInfo, drops, dropped, validationErrors,
                   serverFilled>>
    /\ UNCHANGED notAppVars

NextApp ==
    \/ MountApp
    \/ HealthResponds
    \/ OnDrop
    \/ UploadResponds
    \/ ProcessResponds
    \/ PollTick
    \/ GetDocumentResponds
    \/ PlaceholdersRespond
    \/ Restart
    \/ RetryProcessing
    \/ DismissError
    \/ Unmount

SpecApp == Init /\ [][NextApp]_vars

\* the polling interval exists exactly while the component is mounted and
\* the status of the current document is PROCESSING
TimerWhileProcessing ==
    (pollTimer # <<>>) <=>
        (lifecycle = "mounted"
            /\ StatusOf(shell.document) = DocumentStatus.PROCESSING)

\* a step that starts a status poll
PollStarted == \E r \in requests' \ requests : r.kind = "document"

\* C18: the polling timer is active exactly while the component is mounted
\* and the current document's status is `processing`, it fires every 2
\* seconds, and a status poll is started only while it is active: none is
\* started once another status was observed, the document was cleared or the
\* component was unmounted.
C18_PollTimerWhileProcessing ==
    /\ [](TimerWhileProcessing
            /\ (pollTimer # <<>> => pollTimer[1].every = 2000))
    /\ [][PollStarted =>
            (lifecycle = "mounted"
                /\ StatusOf(shell.document) = DocumentStatus.PROCESSING)]_vars

\* a poll found the document processed: the interval is gone and the
\* placeholders are being loaded for checkDocumentStatus
C18_Witness ==
    /\ lifecycle = "mounted"
    /\ StatusOf(shell.document) = DocumentStatus.PROCESSED
    /\ pollTimer = <<>>
    /\ \E r \in requests : r.kind = "placeholders" /\ r.from = "poll"

\* the three rules of the upload validation
SizeRule(f) == f.size <= 10 * 1024 * 1024
TypeRule(f) ==
    f.type \in
        {"application/vnd.openxmlformats-officedocument.wordprocessingml.document",
         "application/msword"}
NameRule(f) == f.nameLength <= 255
PassesUploadRules(f) == SizeRule(f) /\ TypeRule(f) /\ NameRule(f)

\* the number of rules a file violates
ViolatedRules(f) ==
    (IF SizeRule(f) THEN 0 ELSE 1) + (IF TypeRule(f) THEN 0 ELSE 1)
        + (IF NameRule(f) THEN 0 ELSE 1)

\* a step that issues an upload request
UploadStarted == \E r \in requests' \ requests : r.kind = "upload"

\* C19: an upload request is issued only by dropping a file, and exactly
\* when the file passes validateDocumentUpload, which accepts it exactly when
\* its size is at most 10 MB, its type is one of the two Word types and its
\* name has at most 255 characters; for a rejected file the error list has
\* one entry per violated rule, the entries joined are reported to the
\* caller, and no upload request is issued.
C19_UploadOnlyIfValid ==
    [][/\ UploadStarted => drops' = drops + 1
       /\ drops' = drops + 1 =>
            LET f == dropped'[1]
                checked == validateDocumentUpload(dropped')
            IN  /\ checked.isValid <=> PassesUploadRules(f)
                /\ UploadStarted <=> PassesUploadRules(f)
                /\ ~PassesUploadRules(f) =>
                      /\ validationErrors' = checked.errors
                      /\ Len(validationErrors') = ViolatedRules(f)
                      /\ \A i, j \in 1..Len(validationErrors') :
                            validationErrors'[i] = validationErrors'[j] => i = j
                      /\ shell'.error = join(validationErrors', "; ")]_vars

\* a file that violates all three rules was dropped: three errors, reported
\* in one message, and no request in flight but the health check
C19_Witness ==
    /\ dropped # <<>>
    /\ ViolatedRules(dropped[1]) = 3
    /\ Len(validationErrors) = 3
    /\ shell.error = "File size exceeds 10MB limit; Only .docx and .doc files are supported; Filename is too long"
    /\ \A r \in requests : r.kind # "upload"

\* a step that issues a request of the document workflow to the API
WorkflowRequestStarted ==
    \E r \in requests' \ requests :
        r.kind \in {"upload", "process", "document", "placeholders"}

\* C20: while the last health check reported the API unavailable
\* (isApiAvailable is false), the document workflow issues no upload,
\* process, status or placeholder request to the API: the document is
\* handled locally.
C20_OfflineWorkflowIsLocal ==
    [][(apiInfo = <<FALSE>> /\ ~shell.isApiAvailable)
            => ~WorkflowRequestStarted]_vars


\* C27: for every Placeholder set, validatePlaceholders and
\* validateForDownload return the same isValid.
C27_ValidatorsAgree ==
    pc = "validated" => validation.isValid = downloadValidation.isValid

RECURSIVE VerbatimReplaceAll(_, _, _, _)
\* s from position from on, with every occurrence of the literal text t,
\* found from left to right, replaced by the characters of v
VerbatimReplaceAll(s, t, v, from) ==
    LET later == {i \in Occurrences(s, t) : i >= from}
    IN  IF later = {} THEN Slice(s, from, Len(s))
        ELSE LET i == CHOOSE x \in later : \A y \in later : x <= y
             IN  Slice(s, from, i - 1) \o v
                 \o VerbatimReplaceAll(s, t, v, i + Len(t))

RECURSIVE VerbatimFill(_, _)
\* the Placeholders with a value taken in list order, each occurrence
\* replaced by the characters of the value
VerbatimFill(s, ps) ==
    IF ps = <<>> THEN s
    ELSE VerbatimFill(IF HasValue(Head(ps))
                      THEN VerbatimReplaceAll(s, Head(ps).originalText,
                                              Head(ps).value[1], 1)
                      ELSE s,
                      Tail(ps))

\* a list in the opposite order
Reversed(ps) == [i \in 1..Len(ps) |-> ps[Len(ps) + 1 - i]]

\* C28: fillPlaceholders puts the characters of the value, whatever they
\* are, at every replaced occurrence, and its result is the same for the
\* Placeholders taken in the opposite order.
C28_ValuesInsertedVerbatim ==
    Filled =>
        /\ filledContent = VerbatimFill(fillContent, fillSet)
        /\ filledContent = fillPlaceholders(fillContent, Reversed(fillSet))

\* C29: a timeout timer aborts only the fetch it was set for: whenever a
\* fetch is aborted, it is by cancelRequests or by its own timer, also when
\* the timer outlived its call, and no call ends because the timer of
\* another one fired.
C29_TimeoutAbortsOwnRequestOnly ==
    /\ \A a \in aborted : a.by = byCancelRequests \/ a.by = a.controller
    /\ \A c \in Calls :
         \A n \in 1..Len(apiCalls[c].outcomes) :
             apiCalls[c].outcomes[n] # "foreignTimeout"


(***************************************************************************)
(* AppNew.handleRestart and the responses that arrive after it             *)
(***************************************************************************)

\* the per-document state as handleRestart is said to leave it
IsReset(sh) ==
    /\ sh.currentState = "upload"
    /\ sh.document = <<>>
    /\ sh.placeholders = <<>>
    /\ sh.progress = [total |-> 0, filled |-> 0, percentage |-> 0]

\* a step in which an upload succeeded: handleFileUpload started processing
UploadSucceeded ==
    \E r \in requests \ requests' :
        /\ r.kind = "upload"
        /\ Request("process", r.doc, "upload", 0) \in requests' \ requests

\* C24: handleRestart resets the per-document state and the reset holds until
\* the next successful upload: while the screen is `upload`, the document is
\* null, the Placeholder list is empty and progress is {0, 0, 0}, no step
\* other than a successful upload changes any of them, also not the arrival
\* of a response to a request issued before the restart.
C24_RestartResetHolds ==
    [][(lifecycle = "mounted" /\ IsReset(shell) /\ ~UploadSucceeded)
            => IsReset(shell')]_vars

(***************************************************************************)
(* The processing screen under fair scheduling                             *)
(***************************************************************************)

\* a response that reports a status other than PROCESSING
ReportsFinalStatus ==
    /\ shell'.document # <<>>
    /\ shell'.document[1].status # DocumentStatus.PROCESSING

\* every request eventually returns, the interval fires while it exists, and
\* the backend eventually reports a status other than PROCESSING
SpecAppLive ==
    /\ SpecApp
    /\ WF_vars(HealthResponds)
    /\ WF_vars(UploadResponds)
    /\ WF_vars(ProcessResponds)
    /\ WF_vars(PollTick)
    /\ WF_vars(GetDocumentResponds)
    /\ SF_vars(GetDocumentResponds /\ ReportsFinalStatus)
    /\ WF_vars(PlaceholdersRespond)

\* C26: from every state in which the mounted app shows the `processing`
\* screen, eventually the screen leaves `processing` or an error message is
\* displayed (or the app is unmounted).
C26_ProcessingEndsOrTells ==
    (lifecycle = "mounted" /\ shell.currentState = "processing")
        ~> (shell.currentState # "processing"
                \/ shell.error # ""
                \/ lifecycle = "unmounted")

(***************************************************************************)
(* The conversation and the download: ApiConversationalInterface,          *)
(* DocumentPreview and the handlers of AppNew they call                    *)
(***************************************************************************)

\* user messages of one chat
MaxTurns == 2
\* chat requests in flight
MaxChats == 1

\* what the user types into the chat input
ChatInputs == { <<" ">>, <<"A", "c", "m", "e">> }

\* the Message objects of the chat log
welcomeMessage == [id |-> "welcome", type |-> "bot", error |-> FALSE]
botMessage == [id |-> "bot", type |-> "bot", error |-> FALSE]
completionMessage == [id |-> "completion", type |-> "bot", error |-> FALSE]
userMessage == [id |-> "user", type |-> "user", error |-> FALSE]
errorMessage == [id |-> "error", type |-> "bot", error |-> TRUE]

\* the state of a freshly mounted ApiConversationalInterface
NewChat(slot) ==
    [slot |-> slot, messages |-> <<>>, isLoading |-> FALSE,
     conversationId |-> <<>>, sessionId |-> <<>>, currentPlaceholder |-> <<>>,
     isCompleted |-> FALSE, error |-> ""]

\* how a request ends: response.success, a response without success, or a
\* thrown error
Outcomes == {"ok", "failed", "threw"}

\* the chat requests in flight
ChatRequests == {r \in requests : r.kind = "chat"}

UserTurns(messages) == Len(SelectSeq(messages, LAMBDA m : m.type = "user"))

\* the ChatResponse of the server for a document with the given number of
\* filled fields
ChatResponse(doc, filled) ==
    [conversation_id |-> doc,
     session_id |-> doc,
     current_placeholder |-> IF filled < DocFields THEN <<filled + 1>> ELSE <<>>,
     progress |-> [total |-> DocFields, filled |-> filled,
                   percentage |-> (filled * 100) \div DocFields],
     is_complete |-> filled = DocFields]

\* the mount effects of ApiConversationalInterface: initializeConversation up
\* to the chat request, then the effect on [ placeholders ]
MountChat ==
    /\ lifecycle = "mounted"
    /\ ChatRendered(shell)
    /\ chat = <<>>
    /\ Cardinality(ChatRequests) < MaxChats
    /\ \E slot \in 1..MaxChats : \E outcome \in Outcomes :
        /\ \A r \in ChatRequests : r.slot # slot
        /\ \A s \in 1..(slot - 1) : \E r \in ChatRequests : r.slot = s
        /\ requests' = requests \cup
                         {RequestWith("chat", shell.document[1].id, "init",
                                      slot, outcome)}
        /\ IF AllFilled(shell.placeholders)
           THEN /\ shell' = [shell EXCEPT !.currentState = "preview"]
                /\ chat' = <<>>
           ELSE /\ shell' = shell
                /\ chat' = <<[NewChat(slot) EXCEPT
                                !.isLoading = TRUE,
                                !.messages = <<welcomeMessage>>]>>
    /\ UNCHANGED <<lifecycle, pollTimer, apiInfo, drops, dropped,
                   validationErrors, serverFilled>>
    /\ UNCHANGED notAppVars

\* handleSubmit up to the chat request
Submit ==
    /\ lifecycle = "mounted"
    /\ chat # <<>>
    /\ ~chat[1].isCompleted
    /\ ~chat[1].isLoading
    /\ UserTurns(chat[1].messages) < MaxTurns
    /\ \E currentInput \in ChatInputs : \E outcome \in Outcomes :
        /\ trim(currentInput) # <<>>
        /\ chat' = <<[chat[1] EXCEPT
                        !.messages = Append(@, userMessage),
                        !.isLoading = TRUE,
                        !.error = ""]>>
        /\ requests' = requests \cup
                         {RequestWith("chat", shell.document[1].id, "submit",
                                      chat[1].slot, outcome)}
    /\ UNCHANGED <<lifecycle, shell, pollTimer, apiInfo, drops, dropped,
                   validationErrors, serverFilled>>
    /\ UNCHANGED notAppVars

\* handleSubmit after a chat turn failed: the else branch and the catch
\* branch, then the finally block
ChatTurnFailedTwice(c, outcome) ==
    [c EXCEPT
        !.messages = @ \o <<errorMessage, errorMessage>>,
        !.error = IF outcome = "failed" THEN "Chat error occurred"
                  ELSE "Unknown error",
        !.isLoading = FALSE]

ChatTurnFailed(c, outcome) ==
    [c EXCEPT
        !.messages = Append(@, errorMessage),
        !.error = IF outcome = "failed" THEN "Chat error occurred"
                  ELSE "Unknown error",
        !.isLoading = FALSE]

\* initializeConversation after the chat request failed
ChatStartFailed(c, outcome) ==
    [c EXCEPT
        !.error = IF outcome = "failed" THEN "Failed to start conversation"
                  ELSE "Failed to initialize conversation",
        !.isLoading = FALSE]

\* handleChatResponse, with handleConversationComplete when the response
\* says the conversation is complete (the isCompleted of the closure is
\* false: the form exists only while it is), then the finally block
handleChatResponse(c, chatResponse) ==
    [c EXCEPT
        !.conversationId = <<chatResponse.conversation_id>>,
        !.sessionId = <<chatResponse.session_id>>,
        !.currentPlaceholder = chatResponse.current_placeholder,
        !.isCompleted = chatResponse.is_complete,
        !.messages = @ \o <<botMessage>> \o
                       (IF chatResponse.is_complete
                        THEN <<completionMessage>> ELSE <<>>),
        !.isLoading = FALSE]

\* the chat state after the response to request r
ChatAfter(c, r, outcome, chatResponse) ==
    IF outcome = "ok" THEN handleChatResponse(c, chatResponse)
    ELSE IF r.from = "submit" THEN ChatTurnFailed(c, outcome)
    ELSE ChatStartFailed(c, outcome)

\* a chat request resolved: the rest of handleSubmit or of
\* initializeConversation. The server fills the current field when it
\* accepts the answer. The state updates of a chat that is no longer
\* rendered are dropped, the callbacks into AppNew are not.
ChatResponds ==
    \E r \in requests : \E accepted \in BOOLEAN :
        /\ r.kind = "chat"
        /\ accepted => (r.data = "ok" /\ r.from = "submit"
                            /\ serverFilled[r.doc] < DocFields)
        /\ LET outcome == r.data
               filled == serverFilled[r.doc] + (IF accepted THEN 1 ELSE 0)
               chatResponse == ChatResponse(r.doc, filled)
               turnDone == outcome = "ok" /\ r.from = "submit"
               alive == chat # <<>> /\ chat[1].slot = r.slot
           IN  /\ serverFilled' = [serverFilled EXCEPT ![r.doc] = filled]
               /\ requests' =
                    (requests \ {r}) \cup
                    (IF turnDone
                     THEN {PlaceholdersRequestAt(r.doc, "chat", 0, filled)}
                     ELSE {})
               /\ RerenderWith(
                    [shell EXCEPT
                        !.progress = IF turnDone THEN chatResponse.progress
                                     ELSE @,
                        !.currentState =
                            IF outcome = "ok" /\ chatResponse.is_complete
                            THEN "preview" ELSE @],
                    IF alive
                    THEN <<ChatAfter(chat[1], r, outcome, chatResponse)>>
                    ELSE chat)
        /\ UNCHANGED <<lifecycle, apiInfo, drops>>
        /\ UNCHANGED notAppVars

\* the Continue to Preview button of the conversation screen
ContinueToPreview ==
    /\ lifecycle = "mounted"
    /\ ChatRendered(shell)
    /\ Rerender([shell EXCEPT !.currentState = "preview"])
    /\ UNCHANGED <<lifecycle, requests, apiInfo, drops, serverFilled>>
    /\ UNCHANGED notAppVars

\* handleBackToConversation
BackToConversation ==
    /\ lifecycle = "mounted"
    /\ shell.currentState = "preview"
    /\ shell.document # <<>>
    /\ Rerender([shell EXCEPT !.currentState = "conversation"])
    /\ UNCHANGED <<lifecycle, requests, apiInfo, drops, serverFilled>>
    /\ UNCHANGED notAppVars

\* DocumentPreview.getCompletionStats().isComplete
isComplete(progress) ==
    progress.filled = progress.total /\ progress.total > 0

\* DocumentPreview is rendered and its Download button is enabled
DownloadEnabled ==
    /\ lifecycle = "mounted"
    /\ shell.currentState \in {"conversation", "preview", "completed"}
    /\ shell.document # <<>>
    /\ isComplete(shell.progress)
    /\ ~shell.isGeneratingDownload

\* handleDownload up to the complete request
Download ==
    /\ DownloadEnabled
    /\ Rerender([shell EXCEPT !.isGeneratingDownload = TRUE])
    /\ \E outcome \in Outcomes :
         requests' = requests \cup
                       {RequestWith("complete", shell.document[1].id,
                                    "download", 0, outcome)}
    /\ UNCHANGED <<lifecycle, apiInfo, drops, serverFilled>>
    /\ UNCHANGED notAppVars

\* handleDownload after completeDocument resolved
CompleteRespondsEager(r, outcome) ==
    /\ \E next \in {"ok", "failed"} :
         requests' = (requests \ {r}) \cup
                       {RequestWith("download", r.doc, "download", 0, next)}
    /\ UNCHANGED <<shell, pollTimer, dropped, validationErrors, chat>>

CompleteRespondsWith(r, outcome) ==
    IF outcome = "ok"
    THEN /\ \E next \in {"ok", "failed"} :
              requests' = (requests \ {r}) \cup
                            {RequestWith("download", r.doc, "download", 0, next)}
         /\ UNCHANGED <<shell, pollTimer, dropped, validationErrors, chat>>
    ELSE /\ requests' = requests \ {r}
         /\ Rerender([shell EXCEPT
                !.error = IF outcome = "failed"
                          THEN "Failed to complete document"
                          ELSE "Failed to generate download",
                !.isGeneratingDownload = FALSE])

CompleteResponds ==
    \E r \in requests :
        /\ r.kind = "complete"
        /\ CompleteRespondsWith(r, r.data)
        /\ UNCHANGED <<lifecycle, apiInfo, drops, serverFilled>>
        /\ UNCHANGED notAppVars

\* handleDownload after downloadCompletedDocument resolved
DownloadResponds ==
    \E r \in requests :
        /\ r.kind = "download"
        /\ requests' = requests \ {r}
        /\ Rerender(IF r.data = "ok"
                    THEN [shell EXCEPT
                            !.currentState = "completed",
                            !.isGeneratingDownload = FALSE]
                    ELSE [shell EXCEPT
                            !.error = "Failed to download document",
                            !.isGeneratingDownload = FALSE])
        /\ UNCHANGED <<lifecycle, apiInfo, drops, serverFilled>>
        /\ UNCHANGED notAppVars

\* the app after a document was uploaded and processed and its placeholders
\* were loaded, none of them filled
InitSession ==
    /\ InitEngine
    /\ pc = "idle"
    /\ lifecycle = "mounted"
    /\ shell = [currentState |-> "conversation",
                document |-> Document(1, DocumentStatus.PROCESSED),
                placeholders |-> PlaceholdersOf(1, 0),
                isLoading |-> FALSE, error |-> "",
                isApiAvailable |-> TRUE, isGeneratingDownload |-> FALSE,
                progress |-> [total |-> 0, filled |-> 0, percentage |-> 0]]
    /\ pollTimer = <<>>
    /\ requests = {}
    /\ apiInfo = <<TRUE>>
    /\ drops = 1
    /\ dropped = <<>>
    /\ validationErrors = <<>>
    /\ serverFilled = [d \in 1..MaxDrops |-> 0]
    /\ chat = <<>>

NextSession ==
    \/ MountChat
    \/ Submit
    \/ ChatResponds
    \/ PlaceholdersRespond
    \/ ContinueToPreview
    \/ BackToConversation
    \/ Download
    \/ CompleteResponds
    \/ DownloadResponds
    \/ Unmount

SpecSession == InitSession /\ [][NextSession]_vars

\* the state SpecSession starts in, as a state of the app
SessionStarts ==
    /\ lifecycle = "mounted"
    /\ shell = [currentState |-> "conversation",
                document |-> Document(1, DocumentStatus.PROCESSED),
                placeholders |-> PlaceholdersOf(1, 0),
                isLoading |-> FALSE, error |-> "",
                isApiAvailable |-> TRUE, isGeneratingDownload |-> FALSE,
                progress |-> [total |-> 0, filled |-> 0, percentage |-> 0]]
    /\ pollTimer = <<>>
    /\ requests = {}
    /\ apiInfo = <<TRUE>>
    /\ drops = 1
    /\ dropped = <<>>
    /\ validationErrors = <<>>
    /\ chat = <<>>

(***************************************************************************)
(* Progress, the Download button and the order of get-placeholders         *)
(* responses                                                               *)
(***************************************************************************)

\* the Placeholder AppNew hands to DocumentPreview for a PlaceholderResponse
PreviewPlaceholder(p) ==
    [id |-> p.id,
     value |-> IF p.filled_value = <<>> THEN <<<<>>>> ELSE p.filled_value,
     type |-> "text",
     required |-> TRUE]

\* the Placeholders of the current document that have a value
HavingValue(list) == SelectSeq(list, LAMBDA p : ~Blank(PreviewPlaceholder(p).value))

\* C21: in every state of the app progress.total is the number of
\* Placeholders of the current document and progress.filled the number of
\* them that have a value.
C21_ProgressIsDerived ==
    /\ shell.progress.total = Len(shell.placeholders)
    /\ shell.progress.filled = Len(HavingValue(shell.placeholders))

\* C22: the Download action can be triggered only if every required
\* Placeholder of the current document has a non-blank value and no download
\* is being generated.
C22_DownloadOnlyWhenFilled ==
    DownloadEnabled =>
        /\ ~shell.isGeneratingDownload
        /\ \A i \in 1..Len(shell.placeholders) :
              PreviewPlaceholder(shell.placeholders[i]).required
                  => ~Blank(PreviewPlaceholder(shell.placeholders[i]).value)

\* the number of filled entries of a PlaceholderResponse list
FilledCount(list) == Len(SelectSeq(list, LAMBDA p : p.is_filled))

\* C30: the Placeholder list of the current document never goes back in
\* time: a get-placeholders response never replaces the list by the answer
\* to an older request, that is by a list with fewer filled fields (the
\* server only ever fills fields).
C30_ListNeverGoesBack ==
    [][(shell.document # <<>> /\ shell'.document = shell.document
            /\ shell.placeholders # <<>>)
        => FilledCount(shell'.placeholders) >= FilledCount(shell.placeholders)]_vars

(***************************************************************************)
(* handleDownload and a failed chat turn                                   *)
(***************************************************************************)

\* the requests of handleDownload that are in flight
DownloadRequests == {r \in requests : r.kind \in {"complete", "download"}}

\* the requests that resolve in a step
Resolved == requests \ requests'

\* C23: handleDownload follows the order complete-then-download: a download
\* request is issued only when the complete request for the same document
\* resolved with success; the app enters `completed` only when a download
\* request resolved with success; when either request fails the screen state
\* is unchanged and an error message is set; isGeneratingDownload is true
\* while a request of handleDownload is in flight and false once it ended.
C23_CompleteThenDownload ==
    /\ [](lifecycle = "mounted" =>
            (shell.isGeneratingDownload <=> DownloadRequests # {}))
    /\ [][lifecycle' = "mounted" =>
            /\ \A r \in requests' \ requests :
                 r.kind = "download" =>
                    \E c \in Resolved :
                        c.kind = "complete" /\ c.doc = r.doc /\ c.data = "ok"
            /\ (shell.currentState # "completed"
                    /\ shell'.currentState = "completed")
                 => \E d \in Resolved : d.kind = "download" /\ d.data = "ok"
            /\ \A r \in Resolved \cap DownloadRequests :
                 r.data # "ok" =>
                    /\ shell'.currentState = shell.currentState
                    /\ shell'.error # ""
                    /\ ~shell'.isGeneratingDownload
                    /\ requests' = requests \ {r}]_vars

\* a first handleDownload failed and a second one ran to the end: the file
\* was downloaded, the error of the first attempt is still displayed
C23_Witness ==
    /\ lifecycle = "mounted"
    /\ shell.currentState = "completed"
    /\ shell.error = "Failed to complete document"
    /\ ~shell.isGeneratingDownload
    /\ DownloadRequests = {}

\* the chat that handles the response to request r is still rendered
ChatAlive(r) == chat # <<>> /\ chat[1].slot = r.slot

\* C25: a chat turn that fails (a response without success or a thrown
\* error) changes nothing but the message log and the error banner of the
\* chat: the state of AppNew (Placeholder list, progress, screen) and the
\* conversation id, session id, current placeholder and completion flag are
\* unchanged, no request is started, exactly one error message is appended
\* after the user's message and isLoading is false again. (When the chat was
\* unmounted in between, nothing changes at all.)
C25_FailedTurnChangesLogOnly ==
    [][lifecycle' = "mounted" =>
        \A r \in Resolved :
            (r.kind = "chat" /\ r.from = "submit" /\ r.data # "ok") =>
                /\ shell' = shell
                /\ serverFilled' = serverFilled
                /\ requests' = requests \ {r}
                /\ ~ChatAlive(r) => chat' = chat
                /\ ChatAlive(r) =>
                    /\ chat' # <<>>
                    /\ chat'[1].conversationId = chat[1].conversationId
                    /\ chat'[1].sessionId = chat[1].sessionId
                    /\ chat'[1].currentPlaceholder = chat[1].currentPlaceholder
                    /\ chat'[1].isCompleted = chat[1].isCompleted
                    /\ chat[1].messages[Len(chat[1].messages)].type = "user"
                    /\ Len(chat'[1].messages) = Len(chat[1].messages) + 1
                    /\ SubSeq(chat'[1].messages, 1, Len(chat[1].messages))
                          = chat[1].messages
                    /\ chat'[1].messages[Len(chat'[1].messages)].error
                    /\ chat'[1].error # ""
                    /\ ~chat'[1].isLoading]_vars

\* a chat turn failed after an earlier one had succeeded: the log ends with
\* the user's message and one error message, the input is enabled again
C25_Witness ==
    /\ chat # <<>>
    /\ ~chat[1].isLoading
    /\ chat[1].error = "Chat error occurred"
    /\ chat[1].conversationId # <<>>
    /\ Len(chat[1].messages) >= 2
    /\ chat[1].messages[Len(chat[1].messages)] = errorMessage
    /\ chat[1].messages[Len(chat[1].messages) - 1] = userMessage
    /\ shell.progress.filled = 1

=============================================================================
